---------------------------- MODULE Spec2Model ----------------------------
(***************************************************************************)
(* Client-side session/message synchronisation of Chronos Chat             *)
(* (frontend/src/App.tsx, the streaming API client and the composer).      *)
(*                                                                         *)
(* The React component state is the set of VARIABLES below.  Every event   *)
(* handler runs to its first await as one step; the continuation after     *)
(* the await (the functional state updaters it queues, applied in order)   *)
(* is a second step.  Values a handler reads from its closure              *)
(* (selectedSessionId in handleDeleteSession and handleSubmit) are stored  *)
(* in the record of the pending call, as the closure stores them.          *)
(*                                                                         *)
(* The backend is outside the repository.  It is modelled by the HTTP      *)
(* surface the client consumes: each request is answered at some moment    *)
(* between its dispatch and its completion from the server's state at      *)
(* that moment, or fails in transport.                                     *)
(***************************************************************************)
EXTENDS Integers, Sequences, FiniteSets, Bags, TLC

\* A run is cut off by a quota of requests the user may start: handleSubmit
\* invocations that pass validation, and hydration fetches plus delete
\* requests.  A run has either many submissions and few other requests, or
\* few submissions and many other requests.
MaxSubmits == 2

MaxCalls == 3

FewSubmits == 1

FewCalls == 1

Null == "null"

\* cause.message of a request that failed.
FetchError == "Failed to fetch"

VARIABLES
    sessions,            \* Record<string, ChatSession>: a function on the ids present
    sessionOrder,        \* string[]
    selectedSessionId,   \* string | null
    hydratingSessions,   \* Record<string, boolean>: the set of ids mapped to true
    deletingSessions,    \* Record<string, boolean>: the set of ids mapped to true
    sessionsLoading,     \* boolean
    messageInput,        \* string, as the sequence of its characters
    pendingFiles,        \* File[]
    error,               \* string | null
    isSubmitting,        \* boolean
    lastUpdated,         \* the lastUpdated of every ChatSession, by session id
    loadCall,            \* the fetchSessions() call of the mount effect
    hydrateCalls,        \* fetchSessionDetail(id) calls not yet settled
    deleteCalls,         \* deleteSessionRequest(id) calls not yet settled
    submitCalls,         \* every handleSubmit invocation that passed validation
    server,              \* backend: session id -> persisted messages
    serverOrder,         \* backend: session ids, most recently updated first
    serverCreated,       \* backend: number of sessions ever created
    updated_at,          \* backend: session id -> time of its last message
    clock,               \* the time that new Date() and the backend read
    quota,               \* requests the user may still start
    hydration,           \* one hydration of a full ChatSession record
    decoder,             \* one run of the read loop of submitChatMessage
    titling,             \* one call of deriveSessionTitle
    ingestion            \* one ingestResponse on full ChatSession records

vars == <<sessions, sessionOrder, selectedSessionId, hydratingSessions,
          deletingSessions, sessionsLoading, messageInput, pendingFiles, error,
          isSubmitting, loadCall, hydrateCalls, deleteCalls, submitCalls,
          server, serverOrder, serverCreated, quota, hydration, decoder,
          titling, ingestion, lastUpdated, updated_at, clock>>

clientVars == <<sessions, sessionOrder, selectedSessionId, hydratingSessions,
                deletingSessions, sessionsLoading, messageInput, pendingFiles,
                error, isSubmitting, lastUpdated>>

serverVars == <<server, serverOrder, serverCreated, updated_at>>

\* State that no step of the component or of the backend writes: the functions
\* that are analysed on their own, which stay idle while the component runs,
\* and the clock, which only the passing of time advances.
unitVars == <<hydration, decoder, titling, ingestion, clock>>

NoHydration == [stage |-> "idle"]

NoDecoding == [stage |-> "idle"]

NoTitling == [stage |-> "idle"]

NoIngestion == [stage |-> "idle"]

UnitsIdle ==
    /\ hydration = NoHydration
    /\ decoder = NoDecoding
    /\ titling = NoTitling
    /\ ingestion = NoIngestion

-----------------------------------------------------------------------------
(* Sequence helpers (Array.prototype.filter / map / includes).             *)

Range(s) == {s[i] : i \in DOMAIN s}

Without(f, k) == [x \in DOMAIN f \ {k} |-> f[x]]

With(f, k, v) == [x \in DOMAIN f \cup {k} |-> IF x = k THEN v ELSE f[x]]

Count(s, Test(_)) == Cardinality({i \in DOMAIN s : Test(s[i])})

-----------------------------------------------------------------------------
(* Identifiers.  Date.now() is read once per handleSubmit invocation; two  *)
(* invocations are separate input events and read different milliseconds,  *)
(* so the n-th invocation gets the suffix n.                               *)

TempSessionId(n) == "temp-" \o ToString(n)

OptimisticId(n) == "optimistic-" \o ToString(n)

ServerSessionId(n) == "s" \o ToString(n)

\* The characters of the composer's text the user can type.
Texts == {<<>>, <<"h", "i">>}

\* The file selections the user can make.
FileChoices == {<<>>, <<[name |-> "data.csv", type |-> "text/csv"]>>}

\* The white space String.prototype.trim strips, among the characters used.
Whitespace == {" ", "\n", "\t", "\r"}

\* String.prototype.trim on a sequence of characters.
RECURSIVE TrimStart(_)
TrimStart(s) == IF s # <<>> /\ Head(s) \in Whitespace THEN TrimStart(Tail(s)) ELSE s

RECURSIVE TrimEnd(_)
TrimEnd(s) ==
    IF s # <<>> /\ s[Len(s)] \in Whitespace
    THEN TrimEnd(SubSeq(s, 1, Len(s) - 1))
    ELSE s

Trim(s) == TrimEnd(TrimStart(s))

-----------------------------------------------------------------------------
(* Backend responses.                                                      *)

\* MessageDTOs the backend persists for the n-th submission: the user
\* message, nTools tool messages, the assistant message.
UserDTO(n) == [id |-> "u" \o ToString(n), role |-> "user"]

ToolDTO(n) == [id |-> "t" \o ToString(n), role |-> "tool"]

AssistantDTO(n) == [id |-> "a" \o ToString(n), role |-> "assistant"]

\* Whether a turn carries tool messages is the backend's choice.  The model
\* fixes it by the turn: odd turns run one tool, even turns none, so that
\* bundles with and without tool messages both occur.
ToolCount(n) == n % 2

ToolDTOs(n, nTools) == IF nTools = 0 THEN <<>> ELSE <<ToolDTO(n)>>

TurnDTOs(n, nTools) == <<UserDTO(n)>> \o ToolDTOs(n, nTools) \o <<AssistantDTO(n)>>

\* ChatTurnResponse
TurnResponse(sid, n, nTools) ==
    [session_id |-> sid,
     user_message |-> UserDTO(n),
     tool_messages |-> ToolDTOs(n, nTools),
     assistant_message |-> AssistantDTO(n)]

NoResponse == [session_id |-> Null]

InitialHistory == <<[id |-> "u0", role |-> "user"], [id |-> "a0", role |-> "assistant"]>>


-----------------------------------------------------------------------------
(* Pure helpers of App.tsx.                                                *)

Map(s, F(_)) == [i \in DOMAIN s |-> F(s[i])]

\* toChatMessage: the DTO as a ChatMessage; the pending field is left unset.
toChatMessage(dto) == [id |-> dto.id, role |-> dto.role, pending |-> FALSE]

IsCommitted(msg) == ~msg.pending

IsPending(msg) == msg.pending

\* optimisticContent with the text taken as it was typed.
OptimisticContentUntrimmed(message, files) ==
    IF message # <<>> THEN message
    ELSE IF Len(files) > 0 THEN <<"Uploaded ", ToString(Len(files)), " file(s)">>
    ELSE <<"(no prompt)">>

\* optimisticContent of handleSubmit; a text is the sequence of its
\* characters, the fixed texts are sequences of their pieces.
OptimisticContent(message, files) ==
    IF Trim(message) # <<>> THEN Trim(message)
    ELSE IF Len(files) > 0 THEN <<"Uploaded ", ToString(Len(files)), " file(s)">>
    ELSE <<"(no prompt)">>

\* The optimistic message handleSubmit builds.
OptimisticMessage(n, content) ==
    [id |-> OptimisticId(n), role |-> "user", content |-> content, pending |-> TRUE]

\* setSessions updater of loadSessions.
LoadedSessions(prev, summaries) ==
    [id \in DOMAIN prev \cup Range(summaries) |->
        IF id \in Range(summaries)
        THEN [id |-> id,
              messages |-> IF id \in DOMAIN prev THEN prev[id].messages ELSE <<>>,
              isHydrated |-> IF id \in DOMAIN prev THEN prev[id].isHydrated ELSE FALSE]
        ELSE prev[id]]

\* The hydrateSession updater without the `if (!existing) return prev` guard.
HydratedSessionsUnguarded(prev, sessionId, detail) ==
    With(prev, sessionId,
         [id |-> sessionId,
          messages |-> Map(detail, toChatMessage),
          isHydrated |-> TRUE])

\* The hydrateSession updater without the `...prev` spread: the returned
\* catalog holds the hydrated session alone.
HydratedSessionsNoSpread(prev, sessionId, detail) ==
    IF sessionId \notin DOMAIN prev
    THEN prev
    ELSE [id \in {sessionId} |->
            [prev[sessionId] EXCEPT !.messages = Map(detail, toChatMessage),
                                    !.isHydrated = TRUE]]

\* setSessions updater of hydrateSession.
HydratedSessions(prev, sessionId, detail) ==
    IF sessionId \notin DOMAIN prev
    THEN prev
    ELSE [prev EXCEPT ![sessionId] =
            [@ EXCEPT !.messages = Map(detail, toChatMessage),
                      !.isHydrated = TRUE]]

\* setSessions updater of handleSubmit (the optimistic begin).
BeginSessions(prev, provisionalSessionId, optimisticMessage) ==
    IF provisionalSessionId \in DOMAIN prev
    THEN [prev EXCEPT ![provisionalSessionId].messages = Append(@, optimisticMessage)]
    ELSE With(prev, provisionalSessionId,
              [id |-> provisionalSessionId,
               messages |-> <<optimisticMessage>>,
               isHydrated |-> FALSE])

\* setSessionOrder updater of handleSubmit.
BeginOrder(prev, provisionalSessionId) ==
    <<provisionalSessionId>> \o SelectSeq(prev, LAMBDA id : id # provisionalSessionId)

\* messageBundle with the assistant message placed before the tool messages.
MessageBundleAssistantFirst(response) ==
    <<toChatMessage(response.user_message)>>
        \o <<toChatMessage(response.assistant_message)>>
        \o Map(response.tool_messages, toChatMessage)

\* messageBundle of ingestResponse.
MessageBundle(response) ==
    <<toChatMessage(response.user_message)>>
        \o Map(response.tool_messages, toChatMessage)
        \o <<toChatMessage(response.assistant_message)>>

\* The ingestResponse updater without `delete nextSessions[originalSessionId]`.
IngestSessionsKeepOriginal(prev, response, originalSessionId) ==
    LET sessionId == response.session_id
        hasExisting == sessionId \in DOMAIN prev
                          \/ (originalSessionId # Null /\ originalSessionId \in DOMAIN prev)
        existing == IF sessionId \in DOMAIN prev
                    THEN prev[sessionId]
                    ELSE prev[originalSessionId]
        committedMessages == IF hasExisting
                             THEN SelectSeq(existing.messages, IsCommitted)
                             ELSE <<>>
    IN  With(prev, sessionId,
             [id |-> sessionId,
              messages |-> committedMessages \o MessageBundle(response),
              isHydrated |-> TRUE])

\* setSessions updater of ingestResponse.
IngestSessions(prev, response, originalSessionId) ==
    LET sessionId == response.session_id
        hasOriginal == originalSessionId # Null /\ originalSessionId \in DOMAIN prev
        nextSessions == IF originalSessionId # Null /\ originalSessionId # sessionId
                        THEN Without(prev, originalSessionId)
                        ELSE prev
        hasExisting == sessionId \in DOMAIN nextSessions \/ hasOriginal
        existing == IF sessionId \in DOMAIN nextSessions
                    THEN nextSessions[sessionId]
                    ELSE prev[originalSessionId]
        committedMessages == IF hasExisting
                             THEN SelectSeq(existing.messages, IsCommitted)
                             ELSE <<>>
    IN  With(nextSessions, sessionId,
             [id |-> sessionId,
              messages |-> committedMessages \o MessageBundle(response),
              isHydrated |-> TRUE])

\* The updater without the filter: the id is put in front of the old list.
IngestOrderNoFilter(prev, response, originalSessionId) ==
    <<response.session_id>> \o prev

\* setSessionOrder updater of ingestResponse.
IngestOrder(prev, response, originalSessionId) ==
    <<response.session_id>>
        \o SelectSeq(prev, LAMBDA id : id # response.session_id /\ id # originalSessionId)

\* setSessions updater of handleDeleteSession.
DeletedSessions(prev, sessionId) == Without(prev, sessionId)

\* prev.filter((id) => id !== sessionId) of handleDeleteSession.
DeletedOrder(prev, sessionId) == SelectSeq(prev, LAMBDA id : id # sessionId)

\* lastUpdated as the setSessions updater of loadSessions leaves it:
\* summary.last_message_at for every listed id.
LoadedTimes(prev, summaries, last_message_at) ==
    [id \in DOMAIN prev \cup Range(summaries) |->
        IF id \in Range(summaries) THEN last_message_at[id] ELSE prev[id]]

\* lastUpdated as the updater of hydrateSession leaves it: detail.updated_at.
HydratedTimes(prev, sessionId, detailUpdatedAt) ==
    IF sessionId \notin DOMAIN prev
    THEN prev
    ELSE [prev EXCEPT ![sessionId] = detailUpdatedAt]

\* lastUpdated as the optimistic begin of handleSubmit leaves it: nowIso.
BeginTimes(prev, provisionalSessionId, nowIso) ==
    With(prev, provisionalSessionId, nowIso)

\* lastUpdated as the updater of ingestResponse leaves it: nowIso under
\* response.session_id, the provisional entry deleted.
IngestTimes(prev, response, originalSessionId, nowIso) ==
    LET sessionId == response.session_id
        nextSessions == IF originalSessionId # Null /\ originalSessionId # sessionId
                        THEN Without(prev, originalSessionId)
                        ELSE prev
    IN  With(nextSessions, sessionId, nowIso)

\* filtered[0] ?? null
FirstOrNull(order) == IF order = <<>> THEN Null ELSE order[1]

EmptySessions == [id \in {} |-> Null]

\* Times are counted in ticks of the clock.  No session, no time.
NoTimes == [id \in {} |-> 0]

-----------------------------------------------------------------------------
Mounted ==
    /\ sessions = EmptySessions
    /\ sessionOrder = <<>>
    /\ selectedSessionId = Null
    /\ hydratingSessions = {}
    /\ deletingSessions = {}
    /\ sessionsLoading = TRUE
    /\ messageInput = <<>>
    /\ pendingFiles = <<>>
    /\ error = Null
    /\ isSubmitting = FALSE
    /\ lastUpdated = NoTimes
    /\ loadCall = [stage |-> "sent", ok |-> FALSE, summaries |-> <<>>,
                   last_message_at |-> NoTimes]
    /\ hydrateCalls = EmptyBag
    /\ deleteCalls = {}
    /\ submitCalls = <<>>
    /\ server = [id \in {ServerSessionId(1)} |-> InitialHistory]
    /\ serverOrder = <<ServerSessionId(1)>>
    /\ serverCreated = 1
    /\ updated_at = [id \in {ServerSessionId(1)} |-> 0]
    /\ clock = 0

\* The component right after mounting, the effect's fetchSessions() in flight,
\* and a backend that holds one earlier conversation.
Init ==
    /\ Mounted
    /\ UnitsIdle
    /\ quota \in {[submits |-> MaxSubmits, calls |-> FewCalls],
                  [submits |-> FewSubmits, calls |-> MaxCalls]}

\* The same start with the quotas of the narrow runs: submissions alone, or
\* few submissions next to few other requests.
InitNarrow ==
    /\ Mounted
    /\ UnitsIdle
    /\ quota \in {[submits |-> MaxSubmits, calls |-> 0],
                  [submits |-> FewSubmits, calls |-> FewCalls]}


-----------------------------------------------------------------------------
(* hydrateSession                                                          *)

\* The early return of hydrateSession, negated.
ShouldHydrate(sessionId) ==
    /\ sessionId \in DOMAIN sessions
    /\ ~sessions[sessionId].isHydrated
    /\ sessionId \notin hydratingSessions

\* hydrateSession up to its await: marks the id and issues fetchSessionDetail.
HydrateStart(sessionId) ==
    IF ShouldHydrate(sessionId)
    THEN /\ quota.calls > 0
         /\ quota' = [quota EXCEPT !.calls = @ - 1]
         /\ hydratingSessions' = hydratingSessions \cup {sessionId}
         /\ hydrateCalls' = hydrateCalls (+) SetToBag(
                {[sessionId |-> sessionId, stage |-> "sent", ok |-> FALSE,
                  messages |-> <<>>, updated_at |-> 0]})
    ELSE UNCHANGED <<hydratingSessions, hydrateCalls, quota>>

\* GET /chat/session/{id} is answered, or fails.
ServerDetail(call) ==
    /\ call.stage = "sent"
    /\ hydrateCalls' = (hydrateCalls (-) SetToBag({call})) (+) SetToBag(
          {IF call.sessionId \in DOMAIN server
           THEN [call EXCEPT !.stage = "answered", !.ok = TRUE,
                             !.messages = server[call.sessionId],
                             !.updated_at = updated_at[call.sessionId]]
           ELSE [call EXCEPT !.stage = "answered"]})
    /\ UNCHANGED <<unitVars, clientVars, loadCall, deleteCalls, submitCalls, serverVars, quota>>

\* The fetch rejects, or the backend answers with a non-OK status.
ServerDetailFails(call) ==
    /\ call.stage = "sent"
    /\ hydrateCalls' = (hydrateCalls (-) SetToBag({call})) (+) SetToBag(
          {[call EXCEPT !.stage = "answered"]})
    /\ UNCHANGED <<unitVars, clientVars, loadCall, deleteCalls, submitCalls, serverVars, quota>>

\* hydrateSession after its await, with the marker cleared on success only
\* (the cleanup in the try block instead of the finally block).
HydrateResolveNoFinally(call) ==
    /\ call.stage = "answered"
    /\ IF call.ok
       THEN /\ sessions' = HydratedSessions(sessions, call.sessionId, call.messages)
            /\ lastUpdated' = HydratedTimes(lastUpdated, call.sessionId, call.updated_at)
            /\ hydratingSessions' = hydratingSessions \ {call.sessionId}
            /\ UNCHANGED error
       ELSE /\ error' = FetchError
            /\ UNCHANGED <<sessions, lastUpdated, hydratingSessions>>
    /\ hydrateCalls' = hydrateCalls (-) SetToBag({call})
    /\ UNCHANGED <<unitVars, sessionOrder, selectedSessionId, deletingSessions,
                   sessionsLoading, messageInput, pendingFiles, isSubmitting,
                   loadCall, deleteCalls, submitCalls, serverVars, quota>>

\* hydrateSession after its await: try / catch / finally.
HydrateResolve(call) ==
    /\ call.stage = "answered"
    /\ IF call.ok
       THEN /\ sessions' = HydratedSessions(sessions, call.sessionId, call.messages)
            /\ lastUpdated' = HydratedTimes(lastUpdated, call.sessionId, call.updated_at)
            /\ UNCHANGED error
       ELSE /\ error' = FetchError
            /\ UNCHANGED <<sessions, lastUpdated>>
    /\ hydratingSessions' = hydratingSessions \ {call.sessionId}
    /\ hydrateCalls' = hydrateCalls (-) SetToBag({call})
    /\ UNCHANGED <<unitVars, sessionOrder, selectedSessionId, deletingSessions, sessionsLoading,
                   messageInput, pendingFiles, isSubmitting, loadCall, deleteCalls,
                   submitCalls, serverVars, quota>>

-----------------------------------------------------------------------------
(* loadSessions (the mount effect)                                         *)

\* GET /chat/sessions is answered, or fails.
ServerList ==
    /\ loadCall.stage = "sent"
    /\ loadCall' = [stage |-> "answered", ok |-> TRUE, summaries |-> serverOrder,
                    last_message_at |-> [id \in Range(serverOrder) |-> updated_at[id]]]
    /\ UNCHANGED <<unitVars, clientVars, hydrateCalls, deleteCalls, submitCalls, serverVars, quota>>

ServerListFails ==
    /\ loadCall.stage = "sent"
    /\ loadCall' = [loadCall EXCEPT !.stage = "answered"]
    /\ UNCHANGED <<unitVars, clientVars, hydrateCalls, deleteCalls, submitCalls, serverVars, quota>>

\* loadSessions after its await.
LoadResolve ==
    /\ loadCall.stage = "answered"
    /\ IF loadCall.ok
       THEN /\ sessions' = LoadedSessions(sessions, loadCall.summaries)
            /\ lastUpdated' = LoadedTimes(lastUpdated, loadCall.summaries,
                                          loadCall.last_message_at)
            /\ sessionOrder' = loadCall.summaries
            /\ selectedSessionId' =
                  IF Len(loadCall.summaries) > 0 /\ selectedSessionId = Null
                  THEN loadCall.summaries[1]
                  ELSE selectedSessionId
            /\ UNCHANGED error
       ELSE /\ error' = FetchError
            /\ UNCHANGED <<sessions, lastUpdated, sessionOrder, selectedSessionId>>
    /\ sessionsLoading' = FALSE
    /\ loadCall' = [loadCall EXCEPT !.stage = "done"]
    /\ UNCHANGED <<unitVars, hydratingSessions, deletingSessions, messageInput, pendingFiles,
                   isSubmitting, hydrateCalls, deleteCalls, submitCalls, serverVars, quota>>

-----------------------------------------------------------------------------
(* Selection                                                               *)

handleSelectSession(sessionId) ==
    /\ selectedSessionId' = sessionId
    /\ messageInput' = <<>>
    /\ pendingFiles' = <<>>
    /\ error' = Null
    /\ IF sessionId # Null
       THEN HydrateStart(sessionId)
       ELSE UNCHANGED <<hydratingSessions, hydrateCalls, quota>>
    /\ UNCHANGED <<unitVars, sessions, lastUpdated, sessionOrder, deletingSessions, sessionsLoading,
                   isSubmitting, loadCall, deleteCalls, submitCalls, serverVars>>

\* A click on a row of the sidebar, which lists sessionOrder.
SelectSession == \E sessionId \in Range(sessionOrder) : handleSelectSession(sessionId)

\* The "new conversation" button.
handleCreateSession == handleSelectSession(Null)


-----------------------------------------------------------------------------
(* handleDeleteSession                                                     *)

\* handleDeleteSession up to its await.  The sidebar offers the button for
\* every row of sessionOrder and disables it while deletingSessions[id].
handleDeleteSession(sessionId) ==
    /\ sessionId \notin deletingSessions
    /\ quota.calls > 0
    /\ quota' = [quota EXCEPT !.calls = @ - 1]
    /\ deletingSessions' = deletingSessions \cup {sessionId}
    /\ error' = Null
    /\ deleteCalls' = deleteCalls \cup
          {[sessionId |-> sessionId, selectedSessionId |-> selectedSessionId,
            stage |-> "sent", ok |-> FALSE, status |-> 0]}
    /\ UNCHANGED <<unitVars, sessions, lastUpdated, sessionOrder, selectedSessionId, hydratingSessions,
                   sessionsLoading, messageInput, pendingFiles, isSubmitting,
                   loadCall, hydrateCalls, submitCalls, serverVars>>

DeleteSession == \E sessionId \in Range(sessionOrder) : handleDeleteSession(sessionId)

\* DELETE /chat/session/{id} is answered: 204, or 404 for a session the
\* backend does not hold, which deleteSession turns into a thrown Error
\* like every non-OK status.  Or the request fails in transport.
ServerDelete(call) ==
    /\ call.stage = "sent"
    /\ server' = Without(server, call.sessionId)
    /\ updated_at' = Without(updated_at, call.sessionId)
    /\ serverOrder' = SelectSeq(serverOrder, LAMBDA id : id # call.sessionId)
    /\ deleteCalls' = (deleteCalls \ {call})
          \cup {[call EXCEPT !.stage = "answered",
                             !.ok = call.sessionId \in DOMAIN server,
                             !.status = IF call.sessionId \in DOMAIN server
                                        THEN 204 ELSE 404]}
    /\ UNCHANGED <<unitVars, clientVars, loadCall, hydrateCalls, submitCalls, serverCreated, quota>>

ServerDeleteFails(call) ==
    /\ call.stage = "sent"
    /\ deleteCalls' = (deleteCalls \ {call}) \cup {[call EXCEPT !.stage = "answered"]}
    /\ UNCHANGED <<unitVars, clientVars, loadCall, hydrateCalls, submitCalls, serverVars, quota>>

\* The selection a successful delete leaves: the closure's selectedSessionId
\* decides whether the selection moves to the first remaining id.
DeletedSelection(current, closureSelected, sessionId, filtered) ==
    IF closureSelected = sessionId THEN FirstOrNull(filtered) ELSE current

\* handleDeleteSession after its await, with the marker cleared on success
\* only (the cleanup in the try block instead of the finally block).
DeleteResolveNoFinally(call) ==
    /\ call.stage = "answered"
    /\ IF call.ok
       THEN LET filtered == DeletedOrder(sessionOrder, call.sessionId) IN
            /\ sessions' = DeletedSessions(sessions, call.sessionId)
            /\ lastUpdated' = DeletedSessions(lastUpdated, call.sessionId)
            /\ sessionOrder' = filtered
            /\ selectedSessionId' = DeletedSelection(selectedSessionId,
                    call.selectedSessionId, call.sessionId, filtered)
            /\ IF call.selectedSessionId = call.sessionId
               THEN messageInput' = <<>> /\ pendingFiles' = <<>>
               ELSE UNCHANGED <<messageInput, pendingFiles>>
            /\ hydratingSessions' = hydratingSessions \ {call.sessionId}
            /\ deletingSessions' = deletingSessions \ {call.sessionId}
            /\ UNCHANGED error
       ELSE /\ error' = FetchError
            /\ UNCHANGED <<sessions, lastUpdated, sessionOrder, selectedSessionId,
                           messageInput, pendingFiles, hydratingSessions,
                           deletingSessions>>
    /\ deleteCalls' = deleteCalls \ {call}
    /\ UNCHANGED <<unitVars, sessionsLoading, isSubmitting, loadCall, hydrateCalls, submitCalls,
                   serverVars, quota>>

\* handleDeleteSession after its await: try / catch / finally.
DeleteResolve(call) ==
    /\ call.stage = "answered"
    /\ IF call.ok
       THEN LET filtered == DeletedOrder(sessionOrder, call.sessionId) IN
            /\ sessions' = DeletedSessions(sessions, call.sessionId)
            /\ lastUpdated' = DeletedSessions(lastUpdated, call.sessionId)
            /\ sessionOrder' = filtered
            /\ selectedSessionId' = DeletedSelection(selectedSessionId,
                    call.selectedSessionId, call.sessionId, filtered)
            /\ IF call.selectedSessionId = call.sessionId
               THEN messageInput' = <<>> /\ pendingFiles' = <<>>
               ELSE UNCHANGED <<messageInput, pendingFiles>>
            /\ hydratingSessions' = hydratingSessions \ {call.sessionId}
            /\ UNCHANGED error
       ELSE /\ error' = FetchError
            /\ UNCHANGED <<sessions, lastUpdated, sessionOrder, selectedSessionId, messageInput,
                           pendingFiles, hydratingSessions>>
    /\ deletingSessions' = deletingSessions \ {call.sessionId}
    /\ deleteCalls' = deleteCalls \ {call}
    /\ UNCHANGED <<unitVars, sessionsLoading, isSubmitting, loadCall, hydrateCalls, submitCalls,
                   serverVars, quota>>

-----------------------------------------------------------------------------
(* The composer                                                            *)

\* onMessageChange: the user edits the text.
onMessageChange(value) ==
    /\ value # messageInput
    /\ messageInput' = value
    /\ UNCHANGED <<unitVars, sessions, lastUpdated, sessionOrder, selectedSessionId, hydratingSessions,
                   deletingSessions, sessionsLoading, pendingFiles, error, isSubmitting,
                   loadCall, hydrateCalls, deleteCalls, submitCalls, serverVars, quota>>

MaxImages == 20

\* file.type.startsWith("image/"), on the MIME types of the model.
IsImage(file) == file.type \in {"image/png", "image/jpeg"}

ImageCount(files) == Count(files, IsImage)

\* handleFilesChange without the return after setError.
handleFilesChangeNoReturn(files) ==
    /\ files # pendingFiles
    /\ error' = IF ImageCount(files) > MaxImages
                THEN "Please select at most 20 images per message."
                ELSE Null
    /\ pendingFiles' = files
    /\ UNCHANGED <<unitVars, sessions, lastUpdated, sessionOrder, selectedSessionId, hydratingSessions,
                   deletingSessions, sessionsLoading, messageInput, isSubmitting,
                   loadCall, hydrateCalls, deleteCalls, submitCalls, serverVars, quota>>

handleFilesChange(files) ==
    /\ files # pendingFiles
    /\ IF ImageCount(files) > MaxImages
       THEN /\ error' = "Please select at most 20 images per message."
            /\ UNCHANGED pendingFiles
       ELSE /\ error' = Null
            /\ pendingFiles' = files
    /\ UNCHANGED <<unitVars, sessions, lastUpdated, sessionOrder, selectedSessionId, hydratingSessions,
                   deletingSessions, sessionsLoading, messageInput, isSubmitting,
                   loadCall, hydrateCalls, deleteCalls, submitCalls, serverVars, quota>>

-----------------------------------------------------------------------------
(* handleSubmit and ingestResponse                                         *)

\* The validation with the text taken as typed, not trimmed.
IsEmptySubmissionUntrimmed(message, files) == message = <<>> /\ Len(files) = 0

\* !messageInput.trim() && pendingFiles.length === 0
IsEmptySubmission(message, files) == Trim(message) = <<>> /\ Len(files) = 0

\* handleSubmit up to its await.
handleSubmit ==
    IF IsEmptySubmission(messageInput, pendingFiles)
    THEN /\ error' = "Add a prompt or at least one file before sending."
         /\ UNCHANGED <<unitVars, sessions, lastUpdated, sessionOrder, selectedSessionId, hydratingSessions,
                        deletingSessions, sessionsLoading, messageInput, pendingFiles,
                        isSubmitting, loadCall, hydrateCalls, deleteCalls, submitCalls,
                        serverVars, quota>>
    ELSE LET n == Len(submitCalls) + 1
             provisionalSessionId ==
                 IF selectedSessionId # Null THEN selectedSessionId ELSE TempSessionId(n)
         IN  /\ sessions' = BeginSessions(sessions, provisionalSessionId,
                                          OptimisticMessage(n,
                                              OptimisticContent(messageInput,
                                                                pendingFiles)))
             /\ lastUpdated' = BeginTimes(lastUpdated, provisionalSessionId, clock)
             /\ sessionOrder' = BeginOrder(sessionOrder, provisionalSessionId)
             /\ selectedSessionId' = provisionalSessionId
             /\ isSubmitting' = TRUE
             /\ error' = Null
             /\ submitCalls' = Append(submitCalls,
                    [provisionalSessionId |-> provisionalSessionId,
                     sessionId |-> selectedSessionId,
                     content |-> Trim(messageInput),
                     files |-> pendingFiles,
                     stage |-> "sent", ok |-> FALSE, response |-> NoResponse])
             /\ quota' = [quota EXCEPT !.submits = @ - 1]
             /\ UNCHANGED <<unitVars, hydratingSessions, deletingSessions, sessionsLoading,
                            messageInput, pendingFiles, loadCall, hydrateCalls,
                            deleteCalls, serverVars>>

\* ChatComposer.handleSubmit, reached by the send button and, through
\* handleKeyDown, by the Enter key; only the button is disabled by isSubmitting.
ComposerSubmit ==
    /\ quota.submits > 0
    /\ ~(Trim(messageInput) = <<>> /\ Len(pendingFiles) = 0)
    /\ handleSubmit

\* POST /chat/message is answered with a stream that carries a result frame,
\* or fails (transport error, non-OK status, stream without result).  A
\* request that names a session the backend holds appends to it; any other
\* request that is served opens a new session.
ServerSubmit(n) ==
    /\ submitCalls[n].stage = "sent"
    /\ LET call == submitCalls[n]
              nTools == ToolCount(n)
              known == call.sessionId \in DOMAIN server
              sid == IF known THEN call.sessionId ELSE ServerSessionId(serverCreated + 1)
              history == IF known THEN server[sid] ELSE <<>>
          IN  /\ server' = With(server, sid, history \o TurnDTOs(n, nTools))
              /\ updated_at' = With(updated_at, sid, clock)
              /\ serverOrder' = <<sid>> \o SelectSeq(serverOrder, LAMBDA id : id # sid)
              /\ serverCreated' = IF known THEN serverCreated ELSE serverCreated + 1
              /\ submitCalls' = [submitCalls EXCEPT
                    ![n].stage = "answered", ![n].ok = TRUE,
                    ![n].response = TurnResponse(sid, n, nTools)]
    /\ UNCHANGED <<unitVars, clientVars, loadCall, hydrateCalls, deleteCalls, quota>>

ServerSubmitFails(n) ==
    /\ submitCalls[n].stage = "sent"
    /\ submitCalls' = [submitCalls EXCEPT ![n].stage = "answered"]
    /\ UNCHANGED <<unitVars, clientVars, loadCall, hydrateCalls, deleteCalls, serverVars, quota>>

\* ingestResponse
ingestResponse(response, originalSessionId) ==
    /\ sessions' = IngestSessions(sessions, response, originalSessionId)
    /\ lastUpdated' = IngestTimes(lastUpdated, response, originalSessionId, clock)
    /\ sessionOrder' = IngestOrder(sessionOrder, response, originalSessionId)
    /\ selectedSessionId' = response.session_id

\* handleSubmit after its await: try / catch / finally.
SubmitResolve(n) ==
    LET call == submitCalls[n] IN
    /\ call.stage = "answered"
    /\ IF call.ok
       THEN /\ ingestResponse(call.response, call.provisionalSessionId)
            /\ messageInput' = <<>>
            /\ pendingFiles' = <<>>
            /\ UNCHANGED error
       ELSE /\ error' = FetchError
            /\ UNCHANGED <<sessions, lastUpdated, sessionOrder, selectedSessionId, messageInput,
                           pendingFiles>>
    /\ isSubmitting' = FALSE
    /\ submitCalls' = [submitCalls EXCEPT ![n].stage = "done"]
    /\ UNCHANGED <<unitVars, hydratingSessions, deletingSessions, sessionsLoading, loadCall,
                   hydrateCalls, deleteCalls, serverVars, quota>>

-----------------------------------------------------------------------------
Next ==
    \/ ServerList
    \/ ServerListFails
    \/ LoadResolve
    \/ SelectSession
    \/ handleCreateSession
    \/ \E call \in BagToSet(hydrateCalls) : ServerDetail(call)
    \/ \E call \in BagToSet(hydrateCalls) : ServerDetailFails(call)
    \/ \E call \in BagToSet(hydrateCalls) : HydrateResolve(call)
    \/ DeleteSession
    \/ \E call \in deleteCalls : ServerDelete(call)
    \/ \E call \in deleteCalls : ServerDeleteFails(call)
    \/ \E call \in deleteCalls : DeleteResolve(call)
    \/ \E value \in Texts : onMessageChange(value)
    \/ ComposerSubmit
    \/ \E n \in DOMAIN submitCalls : ServerSubmit(n)
    \/ \E n \in DOMAIN submitCalls : ServerSubmitFails(n)
    \/ \E n \in DOMAIN submitCalls : SubmitResolve(n)

Spec == Init /\ [][Next]_vars

SpecNarrow == InitNarrow /\ [][Next]_vars


-----------------------------------------------------------------------------
(* Vocabulary of the properties.                                           *)

MessageIds(sessionId) ==
    {sessions[sessionId].messages[i].id : i \in DOMAIN sessions[sessionId].messages}

PendingCount(sessionId) == Count(sessions[sessionId].messages, IsPending)

Holds(sessionId, messageId) ==
    /\ sessionId \in DOMAIN sessions
    /\ messageId \in MessageIds(sessionId)

\* The submission has started and its handleSubmit has not yet returned.
InFlight(n) == submitCalls[n].stage # "done"

Committed(n) == submitCalls[n].stage = "done" /\ submitCalls[n].ok

Failed(n) == submitCalls[n].stage = "done" /\ ~submitCalls[n].ok

\* Number of fetchSessionDetail(id) calls that have not settled.
FetchesInFlight(sessionId) ==
    LET calls == {call \in BagToSet(hydrateCalls) : call.sessionId = sessionId}
        sum[S \in SUBSET calls] ==
            IF S = {} THEN 0
            ELSE LET call == CHOOSE c \in S : TRUE
                 IN  CopiesIn(call, hydrateCalls) + sum[S \ {call}]
    IN  sum[calls]

KnownIds == DOMAIN sessions \cup Range(sessionOrder) \cup {selectedSessionId}


-----------------------------------------------------------------------------
\* C1: the set of ids in sessionOrder equals the set of keys of the sessions
\* catalog, in every state reached by load, submit, hydrate and delete steps.
C1_OrderMatchesCatalog == Range(sessionOrder) = DOMAIN sessions

\* C2: when the session a submission targets has been deleted while the
\* submission was in flight (the request named the session, the result
\* names it too, and the catalog no longer holds it when the result
\* arrives), ingestResponse discards the result: afterwards the id is in
\* neither the catalog nor the ordering, and it is not selected.
C2_LateResultDiscarded ==
    [][\A n \in DOMAIN submitCalls :
          LET call == submitCalls[n]
              sessionId == call.response.session_id
          IN  ( /\ SubmitResolve(n)
                /\ call.ok
                /\ call.sessionId = sessionId
                /\ sessionId \notin DOMAIN sessions )
              => /\ sessionId \notin DOMAIN sessions'
                 /\ sessionId \notin Range(sessionOrder')
                 /\ selectedSessionId' # sessionId]_vars

\* C3: after a submission has failed, no session holds its provisional
\* message any more (which covers the provisional session that held only
\* that message: it is gone from the catalog).
C3_FailedSubmissionRolledBack ==
    \A n \in DOMAIN submitCalls :
        Failed(n) => \A sessionId \in DOMAIN sessions :
                        OptimisticId(n) \notin MessageIds(sessionId)

\* C4: every session of the catalog has at most one message with pending=true.
C4_AtMostOnePending ==
    \A sessionId \in DOMAIN sessions : PendingCount(sessionId) <= 1

\* C5: message ids are unique within each session's message list.
C5_UniqueMessageIds ==
    \A sessionId \in DOMAIN sessions :
        Cardinality(MessageIds(sessionId)) = Len(sessions[sessionId].messages)

\* C6: the commit of a submission made with no session selected leaves
\* exactly one new session, keyed by the result's session_id, and the
\* provisional temp id in neither the catalog, the ordering nor the selection.
C6_ProvisionalIdReplaced ==
    [][\A n \in DOMAIN submitCalls :
          LET call == submitCalls[n]
              tempId == call.provisionalSessionId
              sessionId == call.response.session_id
          IN  (SubmitResolve(n) /\ call.ok /\ call.sessionId = Null)
              => /\ tempId # sessionId
                 /\ DOMAIN sessions' = (DOMAIN sessions \ {tempId}) \cup {sessionId}
                 /\ Count(sessionOrder', LAMBDA id : id = sessionId) = 1
                 /\ tempId \notin Range(sessionOrder')
                 /\ selectedSessionId' # tempId]_vars

\* C6 witness: a submission made with no session selected has been
\* committed; its session is in the catalog and its temp id is not.
C6_Witness ==
    \E n \in DOMAIN submitCalls :
        /\ Committed(n)
        /\ submitCalls[n].sessionId = Null
        /\ submitCalls[n].response.session_id \in DOMAIN sessions
        /\ submitCalls[n].provisionalSessionId \notin KnownIds

\* The messages the target of a commit held before it: those under the
\* result's id, or else those under the provisional id.
PreviousMessages(sessionId, provisionalSessionId) ==
    IF sessionId \in DOMAIN sessions THEN sessions[sessionId].messages
    ELSE IF provisionalSessionId \in DOMAIN sessions
         THEN sessions[provisionalSessionId].messages
         ELSE <<>>

C8_CommittedHistoryMigrated ==
    [][\A n \in DOMAIN submitCalls :
          LET call == submitCalls[n]
              provisionalSessionId == call.provisionalSessionId
              sessionId == call.response.session_id
              history == SelectSeq(sessions[provisionalSessionId].messages, IsCommitted)
          IN  ( /\ SubmitResolve(n)
                /\ call.ok
                /\ sessionId # provisionalSessionId
                /\ provisionalSessionId \in DOMAIN sessions )
              => SelectSeq(sessions'[sessionId].messages,
                           LAMBDA msg : msg \in Range(history)) = history]_vars

\* C9: applying a hydration result to a session that a submission in flight
\* targets keeps the submission's pending message in the message list.
C9_HydrationKeepsPending ==
    [][\A call \in BagToSet(hydrateCalls) : \A n \in DOMAIN submitCalls :
          ( /\ HydrateResolve(call)
            /\ call.ok
            /\ InFlight(n)
            /\ submitCalls[n].provisionalSessionId = call.sessionId
            /\ Holds(call.sessionId, OptimisticId(n)) )
          => OptimisticId(n) \in
                {sessions'[call.sessionId].messages[i].id :
                    i \in DOMAIN sessions'[call.sessionId].messages}]_vars

\* C10: hydrateSession(id) issues no fetch while a hydration for id is in
\* flight, so there are never two fetchSessionDetail(id) calls in flight for
\* one id.
C10_OneFetchPerId ==
    \A sessionId \in KnownIds \cup {call.sessionId : call \in BagToSet(hydrateCalls)} :
        FetchesInFlight(sessionId) <= 1

\* C12: when a hydration fetch fails, the catalog is left as it is (the
\* session keeps its messages and its isHydrated flag), an error is recorded
\* and the in-flight marker of the id is cleared, so that hydrateSession
\* would fetch again for a session that is still there and not hydrated.
C12_FailedHydrationRetryable ==
    [][\A call \in BagToSet(hydrateCalls) :
          (HydrateResolve(call) /\ ~call.ok)
          => /\ sessions' = sessions
             /\ sessionOrder' = sessionOrder
             /\ error' # Null
             /\ call.sessionId \notin hydratingSessions'
             /\ (call.sessionId \in DOMAIN sessions
                    /\ ~sessions[call.sessionId].isHydrated)
                => ShouldHydrate(call.sessionId)']_vars

\* C12 witness: an error is on record, no request is in flight, and the
\* selected session is in the catalog, not hydrated and not marked, as a
\* failed hydration of it leaves it.
C12_Witness ==
    /\ error = FetchError
    /\ loadCall.stage = "done" /\ loadCall.ok
    /\ hydrateCalls = EmptyBag /\ deleteCalls = {} /\ submitCalls = <<>>
    /\ selectedSessionId \in DOMAIN sessions
    /\ selectedSessionId \in DOMAIN server
    /\ ShouldHydrate(selectedSessionId)

C14_DeleteOfSelectedMovesSelection ==
    [][\A call \in deleteCalls :
          (DeleteResolve(call) /\ call.ok /\ selectedSessionId = call.sessionId)
          => /\ call.sessionId \notin DOMAIN sessions'
             /\ call.sessionId \notin Range(sessionOrder')
             /\ selectedSessionId' = FirstOrNull(sessionOrder')]_vars

\* C15: a delete that the backend answers with not-found is treated as a
\* success: the session leaves the local catalog and ordering, and no error
\* is recorded.
C15_DeleteNotFoundIsSuccess ==
    [][\A call \in deleteCalls :
          (DeleteResolve(call) /\ call.status = 404)
          => /\ call.sessionId \notin DOMAIN sessions'
             /\ call.sessionId \notin Range(sessionOrder')
             /\ error' = error]_vars

-----------------------------------------------------------------------------
(* hydrateSession on the full ChatSession record: title, messages with     *)
(* their uploads, uploads, timestamps.  The component model above keeps    *)
(* only the id, role and pending flag of a message; here one catalog       *)
(* entry and one SessionDetailResponse are taken from small sets and the   *)
(* setSessions updater of hydrateSession is applied to them.               *)

\* a ?? b
Coalesce(a, b) == IF a = Null THEN b ELSE a

\* UploadArtifactDTO
UploadDTO(id, messageId) == [id |-> id, message_id |-> messageId]

\* MessageDTO with its content and created_at.
DetailMessageDTO(id, role, content) ==
    [id |-> id, role |-> role, content |-> content, created_at |-> "t-" \o id]

\* toChatMessage(dto, allUploads) with every field it sets.
toChatMessageFull(dto, allUploads) ==
    [id |-> dto.id,
     role |-> dto.role,
     content |-> Coalesce(dto.content, ""),
     createdAt |-> dto.created_at,
     uploads |-> SelectSeq(allUploads, LAMBDA u : u.message_id = dto.id)]

\* The updater with messages that each carry every upload of the detail.
HydratedSessionSharedUploads(existing, detail) ==
    [existing EXCEPT
        !.title = Coalesce(detail.session_title, existing.title),
        !.messages = [i \in DOMAIN detail.messages |->
                         [toChatMessageFull(detail.messages[i], detail.uploads)
                             EXCEPT !.uploads = detail.uploads]],
        !.uploads = detail.uploads,
        !.lastUpdated = Coalesce(detail.updated_at, existing.lastUpdated),
        !.createdAt = Coalesce(detail.created_at, existing.createdAt),
        !.isHydrated = TRUE]

\* The entry hydrateSession's updater stores for an existing session.
HydratedSession(existing, detail) ==
    [existing EXCEPT
        !.title = Coalesce(detail.session_title, existing.title),
        !.messages = [i \in DOMAIN detail.messages |->
                         toChatMessageFull(detail.messages[i], detail.uploads)],
        !.uploads = detail.uploads,
        !.lastUpdated = Coalesce(detail.updated_at, existing.lastUpdated),
        !.createdAt = Coalesce(detail.created_at, existing.createdAt),
        !.isHydrated = TRUE]

\* Catalog entries a hydration can meet: empty after the list load, or
\* already holding a message (committed, or the pending one of a submission).
ExistingSessions ==
    [id : {"s1"},
     title : {"Untitled conversation"},
     messages : {<<>>,
                 <<[id |-> "optimistic-1", role |-> "user", content |-> "hi",
                    createdAt |-> "t-o1", uploads |-> <<>>, pending |-> TRUE]>>,
                 <<[id |-> "m0", role |-> "user", content |-> "old",
                    createdAt |-> "t-m0", uploads |-> <<>>]>>},
     uploads : {<<>>, <<UploadDTO("f0", "m0")>>},
     lastUpdated : {"t-list"},
     createdAt : {"t-created"},
     isHydrated : {FALSE, TRUE}]

DetailMessages ==
    {<<>>,
     <<DetailMessageDTO("m1", "user", "hi")>>,
     <<DetailMessageDTO("m1", "user", Null), DetailMessageDTO("m2", "assistant", "yo")>>}

DetailUploads ==
    {<<>>,
     <<UploadDTO("f1", "m1")>>,
     <<UploadDTO("f1", "m1"), UploadDTO("f2", "m2")>>,
     <<UploadDTO("f2", "m2"), UploadDTO("f3", Null), UploadDTO("f1", "m1")>>,
     <<UploadDTO("f1", "m1"), UploadDTO("f4", "m1"), UploadDTO("f5", "m9")>>}

\* SessionDetailResponse
SessionDetails ==
    [session_title : {Null, "", "Sales forecast"},
     messages : DetailMessages,
     uploads : DetailUploads,
     updated_at : {Null, "t-updated"},
     created_at : {Null, "t-first"}]

InitHydration ==
    /\ Mounted
    /\ quota = [submits |-> 0, calls |-> 0]
    /\ hydration \in [existing : ExistingSessions, detail : SessionDetails,
                      stage : {"fetched"}, session : {Null}]
    /\ decoder = NoDecoding
    /\ titling = NoTitling
    /\ ingestion = NoIngestion

\* The setSessions updater of hydrateSession runs on the entry.
ApplyHydration ==
    /\ hydration.stage = "fetched"
    /\ hydration' = [hydration EXCEPT
                        !.stage = "applied",
                        !.session = HydratedSession(hydration.existing, hydration.detail)]
    /\ UNCHANGED <<clientVars, loadCall, hydrateCalls, deleteCalls, submitCalls,
                   serverVars, quota, decoder, titling, ingestion, clock>>

NextHydration == ApplyHydration

SpecHydration == InitHydration /\ [][NextHydration]_vars

\* C11: after a successful hydration of an existing session its messages are
\* those of the fetched detail, each carrying exactly the uploads whose
\* message_id is its id, its uploads are the fetched ones, title and
\* timestamps are the fetched values when present and the old ones
\* otherwise, and isHydrated is true.
C11_HydrationOverwrites ==
    hydration.stage = "applied" =>
        LET old == hydration.existing
            detail == hydration.detail
            new == hydration.session
        IN  /\ new.id = old.id
            /\ Len(new.messages) = Len(detail.messages)
            /\ \A i \in DOMAIN detail.messages :
                  LET msg == new.messages[i]
                      dto == detail.messages[i]
                  IN  /\ msg.id = dto.id
                      /\ msg.role = dto.role
                      /\ msg.content = (IF dto.content = Null THEN "" ELSE dto.content)
                      /\ msg.createdAt = dto.created_at
                      /\ Range(msg.uploads) =
                            {u \in Range(detail.uploads) : u.message_id = dto.id}
                      /\ Len(msg.uploads) = Cardinality(Range(msg.uploads))
            /\ new.uploads = detail.uploads
            /\ new.title = (IF detail.session_title # Null
                            THEN detail.session_title ELSE old.title)
            /\ new.lastUpdated = (IF detail.updated_at # Null
                                  THEN detail.updated_at ELSE old.lastUpdated)
            /\ new.createdAt = (IF detail.created_at # Null
                                THEN detail.created_at ELSE old.createdAt)
            /\ new.isHydrated

\* C11 witness: a detail of two messages, with an upload of the first, an
\* upload of no message and no title, applied to an entry that held a message.
C11_Witness ==
    /\ hydration.stage = "applied"
    /\ Len(hydration.detail.messages) = 2
    /\ hydration.detail.session_title = Null
    /\ hydration.detail.updated_at # Null
    /\ \E u \in Range(hydration.detail.uploads) : u.message_id = Null
    /\ hydration.existing.messages # <<>>
    /\ Len(hydration.session.messages[1].uploads) = 1
    /\ hydration.session.title = hydration.existing.title

-----------------------------------------------------------------------------
(* The composer on its own.  In one specification the text may be blank   *)
(* and handleSubmit is called as the onSubmit prop whether or not          *)
(* ChatComposer's own check would have let the call through; in the other  *)
(* the file selections may hold many images.                               *)

\* Most files the composer is given in a run, and most files among them
\* that are not images.
MaxFiles == 41

MaxOtherFiles == 1

\* Texts made of white space only.
BlankTexts == {<<" ">>, <<" ", "\n">>}

CsvFile == [name |-> "data.csv", type |-> "text/csv"]

ImageFile == [name |-> "chart.png", type |-> "image/png"]

Repeat(file, n) == [i \in 1..n |-> file]

\* What the file dialog hands to handleFileSelection.
FileSelections ==
    {<<CsvFile>>, Repeat(ImageFile, 5), Repeat(ImageFile, 10),
     Repeat(ImageFile, MaxImages + 1)}

WithinFileBounds(files) ==
    /\ Len(files) <= MaxFiles
    /\ Len(files) - ImageCount(files) <= MaxOtherFiles

\* ChatComposer.handleFileSelection: onFilesChange([...files, ...selected]).
handleFileSelection ==
    \E selected \in FileSelections :
        /\ WithinFileBounds(pendingFiles \o selected)
        /\ handleFilesChange(pendingFiles \o selected)

\* The user edits the text, white space included.
EditText == \E value \in Texts \cup BlankTexts : onMessageChange(value)

\* The validation of handleSubmit, as it stands on the current state.
SubmitIsEmpty == Trim(messageInput) = <<>> /\ Len(pendingFiles) = 0

\* handleSubmit called through the onSubmit prop.
InvokeSubmit ==
    /\ SubmitIsEmpty \/ quota.submits > 0
    /\ handleSubmit

InitComposer ==
    /\ Mounted
    /\ UnitsIdle
    /\ quota = [submits |-> FewSubmits, calls |-> 0]

\* A file is attached, or the attachments are emptied.
AttachFile == \E files \in FileChoices : handleFilesChange(files)

NextComposer ==
    \/ EditText
    \/ AttachFile
    \/ InvokeSubmit
    \/ \E n \in DOMAIN submitCalls : ServerSubmit(n)
    \/ \E n \in DOMAIN submitCalls : ServerSubmitFails(n)
    \/ \E n \in DOMAIN submitCalls : SubmitResolve(n)

SpecComposer == InitComposer /\ [][NextComposer]_vars

\* Files are only added here: removeFile hands handleFilesChange a shorter
\* list, which holds no more images than the list it comes from.
NextFiles ==
    \/ handleFileSelection
    \/ ComposerSubmit
    \/ \E n \in DOMAIN submitCalls : ServerSubmit(n)
    \/ \E n \in DOMAIN submitCalls : ServerSubmitFails(n)
    \/ \E n \in DOMAIN submitCalls : SubmitResolve(n)

SpecFiles == InitComposer /\ [][NextFiles]_vars

\* C16: handleSubmit with a text that trims to nothing and no pending file
\* issues no request, records the validation error and creates no
\* provisional message or session: catalog, ordering and selection stay.
C16_EmptySubmitRejected ==
    [][(handleSubmit /\ SubmitIsEmpty)
       => /\ submitCalls' = submitCalls
          /\ error' = "Add a prompt or at least one file before sending."
          /\ sessions' = sessions
          /\ sessionOrder' = sessionOrder
          /\ selectedSessionId' = selectedSessionId
          /\ isSubmitting' = isSubmitting]_vars

\* C16 witness: the validation error is on record over a text of white space
\* only, with nothing pending, nothing sent and an empty catalog.
C16_Witness ==
    /\ error = "Add a prompt or at least one file before sending."
    /\ messageInput \in BlankTexts
    /\ pendingFiles = <<>>
    /\ submitCalls = <<>>
    /\ sessions = EmptySessions
    /\ selectedSessionId = Null

\* C17: a file selection that would bring more than 20 images is rejected
\* with an error and leaves pendingFiles as it was; so pendingFiles never
\* holds more than 20 images, and neither does any submission request.
C17_AtMostTwentyImages ==
    [][/\ \A selected \in FileSelections :
            LET files == pendingFiles \o selected IN
            (handleFilesChange(files) /\ ImageCount(files) > 20)
            => /\ pendingFiles' = pendingFiles
               /\ error' = "Please select at most 20 images per message."
       /\ ImageCount(pendingFiles') <= 20
       /\ \A n \in DOMAIN submitCalls' :
            ImageCount(submitCalls'[n].files) <= 20]_vars

\* C17 witness: the rejection is on record while 20 images and one other
\* file are pending, and a request carrying images is in flight.
C17_Witness ==
    /\ error = "Please select at most 20 images per message."
    /\ ImageCount(pendingFiles) = 20
    /\ Len(pendingFiles) = 21
    /\ \E n \in DOMAIN submitCalls :
          /\ submitCalls[n].stage = "sent"
          /\ ImageCount(submitCalls[n].files) > 0


-----------------------------------------------------------------------------
(* The read loop of submitChatMessage.  The response body is a sequence of *)
(* characters; reader.read() hands over a non-empty prefix of what is      *)
(* left: up to MaxChunk characters, or all of it.  The decoder's own       *)
(* string operations (split, trim, startsWith, slice) work on single       *)
(* characters.  Inside a JSON text one letter stands for the member list   *)
(* of an object, so that a text is a few characters long: "{", a letter,   *)
(* "}".  JSON.parse is total on every sequence: the texts listed in        *)
(* JSONParse parse, everything else is a SyntaxError.                      *)

MaxFrames == 3

MaxChunk == 3

Delimiter == <<"\n", "\n">>

DataPrefix == <<"d", "a", "t", "a", ":">>

JsonValue(json, type, step, session_id, title, created_new, payload) ==
    [json |-> json, type |-> type, step |-> step, session_id |-> session_id,
     title |-> title, created_new |-> created_new, payload |-> payload]

SyntaxError == JsonValue("SyntaxError", Null, Null, Null, Null, FALSE, Null)

JSONParse(text) ==
    CASE text = <<"{", "P", "}">> ->
            JsonValue("object", "progress", "reasoning", Null, Null, FALSE, Null)
      [] text = <<"{", "S", "}">> ->
            JsonValue("object", "session", Null, "s2", "Title", TRUE, Null)
      [] text = <<"{", "R", "}">> ->
            JsonValue("object", "result", Null, Null, Null, FALSE, "turnA")
      [] text = <<"{", "Q", "}">> ->
            JsonValue("object", "result", Null, Null, Null, FALSE, "turnB")
      [] text = <<"{", "U", "}">> ->
            JsonValue("object", "heartbeat", "reasoning", Null, Null, FALSE, Null)
      [] text = <<"{", "H", "}">> ->
            JsonValue("object", "result", Null, Null, Null, FALSE, Null)
      [] text = <<"5">> ->
            JsonValue("number", Null, Null, Null, Null, FALSE, Null)
      [] OTHER -> SyntaxError

StartsWith(s, prefix) ==
    Len(s) >= Len(prefix) /\ SubSeq(s, 1, Len(prefix)) = prefix

\* the positions at which the delimiter starts in s
DelimiterAt(s) == {i \in 1..(Len(s) - 1) : SubSeq(s, i, i + 1) = Delimiter}

RECURSIVE Split(_)
Split(s) ==
    IF DelimiterAt(s) = {}
    THEN <<s>>
    ELSE LET i == CHOOSE j \in DelimiterAt(s) : \A k \in DelimiterAt(s) : j <= k
         IN  <<SubSeq(s, 1, i - 1)>> \o Split(SubSeq(s, i + 2, Len(s)))

ProgressCall(step) == [fn |-> "onProgress", step |-> step, sessionId |-> Null,
                       title |-> Null, createdNew |-> FALSE]

SessionCall(sessionId, title, createdNew) ==
    [fn |-> "onSession", step |-> Null, sessionId |-> sessionId,
     title |-> title, createdNew |-> createdNew]

HandleSegmentAnyType(acc, segment) ==
    LET trimmed == Trim(segment)
        jsonPayload == Trim(SubSeq(trimmed, Len(DataPrefix) + 1, Len(trimmed)))
        parsed == JSONParse(jsonPayload)
    IN  IF ~StartsWith(trimmed, DataPrefix) THEN acc
        ELSE IF jsonPayload = <<>> THEN acc
        ELSE IF parsed = SyntaxError THEN acc
        ELSE IF parsed.json # "object" THEN acc
        ELSE IF parsed.step # Null
             THEN [acc EXCEPT !.callbacks = Append(@, ProgressCall(parsed.step))]
        ELSE IF parsed.session_id # Null
             THEN [acc EXCEPT !.callbacks =
                      Append(@, SessionCall(parsed.session_id,
                                            Coalesce(parsed.title, ""),
                                            parsed.created_new))]
        ELSE IF parsed.payload # Null
             THEN [acc EXCEPT !.finalPayload = parsed.payload]
        ELSE acc

\* one pass of the for-loop body over a complete segment; acc holds
\* finalPayload and the calls made so far on the options' callbacks
HandleSegment(acc, segment) ==
    LET trimmed == Trim(segment)
        jsonPayload == Trim(SubSeq(trimmed, Len(DataPrefix) + 1, Len(trimmed)))
        parsed == JSONParse(jsonPayload)
    IN  IF ~StartsWith(trimmed, DataPrefix) THEN acc
        ELSE IF jsonPayload = <<>> THEN acc
        ELSE IF parsed = SyntaxError THEN acc
        ELSE IF parsed.json # "object" THEN acc
        ELSE IF parsed.type = "progress" /\ parsed.step # Null
             THEN [acc EXCEPT !.callbacks = Append(@, ProgressCall(parsed.step))]
        ELSE IF parsed.type = "session" /\ parsed.session_id # Null
             THEN [acc EXCEPT !.callbacks =
                      Append(@, SessionCall(parsed.session_id,
                                            Coalesce(parsed.title, ""),
                                            parsed.created_new))]
        ELSE IF parsed.type = "result" /\ parsed.payload # Null
             THEN [acc EXCEPT !.finalPayload = parsed.payload]
        ELSE acc

\* The loop leaving the segments of a read after a progress event unhandled.
RECURSIVE HandleSegmentsStopAtProgress(_, _)
HandleSegmentsStopAtProgress(acc, segments) ==
    IF segments = <<>> THEN acc
    ELSE LET next == HandleSegment(acc, Head(segments))
         IN  IF Len(next.callbacks) > Len(acc.callbacks) THEN next
             ELSE HandleSegmentsStopAtProgress(next, Tail(segments))

RECURSIVE HandleSegments(_, _)
HandleSegments(acc, segments) ==
    IF segments = <<>> THEN acc
    ELSE HandleSegments(HandleSegment(acc, Head(segments)), Tail(segments))

ConsumeNoCarry(state, value) ==
    LET segments == Split(value)
        acc == HandleSegments([finalPayload |-> state.finalPayload,
                               callbacks |-> state.callbacks],
                              SubSeq(segments, 1, Len(segments) - 1))
    IN  [state EXCEPT !.buffer = segments[Len(segments)],
                      !.finalPayload = acc.finalPayload,
                      !.callbacks = acc.callbacks]

\* one iteration of the while-loop on a chunk that was read
Consume(state, value) ==
    LET segments == Split(state.buffer \o value)
        acc == HandleSegments([finalPayload |-> state.finalPayload,
                               callbacks |-> state.callbacks],
                              SubSeq(segments, 1, Len(segments) - 1))
    IN  [state EXCEPT !.buffer = segments[Len(segments)],
                      !.finalPayload = acc.finalPayload,
                      !.callbacks = acc.callbacks]

FinishUnchecked(state) ==
    [state EXCEPT !.stage = "done",
                  !.outcome = [kind |-> "returned", value |-> state.finalPayload]]

Finish(state) ==
    [state EXCEPT !.stage = "done",
                  !.outcome = IF state.finalPayload = Null
                              THEN [kind |-> "threw",
                                    value |-> "Response stream ended without result."]
                              ELSE [kind |-> "returned",
                                    value |-> state.finalPayload]]

(* The frames a response body is made of. *)
FrameText(kind) ==
    CASE kind = "progress"  -> <<"d", "a", "t", "a", ":", " ", "{", "P", "}">>
      [] kind = "session"   -> <<"d", "a", "t", "a", ":", "{", "S", "}">>
      [] kind = "result"    -> <<"d", "a", "t", "a", ":", " ", "{", "R", "}">>
      [] kind = "resultB"   -> <<" ", "d", "a", "t", "a", ":", " ", "{", "Q", "}", " ">>
      [] kind = "comment"   -> <<":", "k">>
      [] kind = "noData"    -> <<"d", "a", "t", "a", ":", " ">>
      [] kind = "badJson"   -> <<"d", "a", "t", "a", ":", " ", "{", "R">>
      [] kind = "number"    -> <<"d", "a", "t", "a", ":", " ", "5">>
      [] kind = "heartbeat" -> <<"d", "a", "t", "a", ":", " ", "{", "U", "}">>
      [] kind = "plainJson" -> <<"{", "R", "}">>

EventKinds == {"progress", "session", "result", "resultB"}

IgnoredKinds == {"comment", "noData", "badJson", "number", "heartbeat"}

FrameKinds == EventKinds \cup IgnoredKinds

\* A body is up to MaxFrames frames, or the JSON text of a payload alone.
FrameLists == UNION {[1..n -> FrameKinds] : n \in 1..MaxFrames} \cup {<<"plainJson">>}

\* the body: every frame followed by the delimiter, the last one only when
\* the server closed the stream after a delimiter
RECURSIVE BodyOf(_, _)
BodyOf(frames, closed) ==
    IF frames = <<>> THEN <<>>
    ELSE FrameText(Head(frames))
         \o (IF Len(frames) > 1 \/ closed THEN Delimiter ELSE <<>>)
         \o BodyOf(Tail(frames), closed)

StartDecoding(frames, closed) ==
    [stage |-> "reading", frames |-> frames, closed |-> closed,
     body |-> BodyOf(frames, closed), buffer |-> <<>>, finalPayload |-> Null,
     callbacks |-> <<>>, outcome |-> [kind |-> "pending", value |-> Null]]

InitDecoder ==
    /\ Mounted
    /\ quota = [submits |-> 0, calls |-> 0]
    /\ hydration = NoHydration
    /\ titling = NoTitling
    /\ ingestion = NoIngestion
    /\ \E frames \in FrameLists, closed \in BOOLEAN :
          decoder = StartDecoding(frames, closed)

DecoderFrame == UNCHANGED <<clientVars, loadCall, hydrateCalls, deleteCalls,
                            submitCalls, serverVars, quota, hydration, titling,
                            ingestion, clock>>

\* the lengths of the chunk a read hands over: a few characters, or all
\* that is left of the body
ChunkLengths(body) == {n \in 1..Len(body) : n <= MaxChunk \/ n = Len(body)}

ReadChunk ==
    /\ decoder.stage = "reading"
    /\ \E n \in ChunkLengths(decoder.body) :
          decoder' = Consume([decoder EXCEPT !.body = SubSeq(@, n + 1, Len(@))],
                             SubSeq(decoder.body, 1, n))
    /\ DecoderFrame

ReadDone ==
    /\ decoder.stage = "reading"
    /\ decoder.body = <<>>
    /\ decoder' = Finish(decoder)
    /\ DecoderFrame

NextDecoder == ReadChunk \/ ReadDone

SpecDecoder == InitDecoder /\ [][NextDecoder]_vars


\* the frames of the body that the delimiter follows
CompleteFrames(frames, closed) ==
    IF closed THEN frames ELSE SubSeq(frames, 1, Len(frames) - 1)

ResultKinds == {"result", "resultB"}

ResultPayload(kind) == IF kind = "result" THEN "turnA" ELSE "turnB"

StreamError == [kind |-> "threw", value |-> "Response stream ended without result."]

\* C18: when the stream has ended, submitChatMessage has thrown "Response
\* stream ended without result." exactly if no well-formed result frame was
\* completed by a delimiter, and otherwise it has returned the payload of the
\* last such frame: a payload is returned only if a result frame was decoded.
C18_NoResultFrameFails ==
    decoder.stage = "done" =>
        LET complete == CompleteFrames(decoder.frames, decoder.closed)
            results == {i \in DOMAIN complete : complete[i] \in ResultKinds}
        IN  /\ results = {} => decoder.outcome = StreamError
            /\ results # {} =>
                  \E i \in results :
                     /\ \A j \in results : j <= i
                     /\ decoder.outcome = [kind |-> "returned",
                                           value |-> ResultPayload(complete[i])]
            /\ decoder.outcome.kind = "returned" => decoder.outcome.value # Null

\* the stream ended after progress had been reported and with a result frame
\* that no delimiter followed: the call failed
C18_Witness ==
    /\ decoder.stage = "done"
    /\ decoder.outcome = StreamError
    /\ decoder.callbacks # <<>>
    /\ ~decoder.closed
    /\ decoder.frames[Len(decoder.frames)] \in ResultKinds


\* what the call does when the whole body arrives in one read
DecodedInOneRead(frames, closed) ==
    LET start == StartDecoding(frames, closed)
        state == IF start.body = <<>> THEN start
                 ELSE Consume([start EXCEPT !.body = <<>>], start.body)
    IN  [callbacks |-> Finish(state).callbacks, outcome |-> Finish(state).outcome]

\* the part of the body that the reader has handed over so far
ReadSoFar ==
    LET all == BodyOf(decoder.frames, decoder.closed)
    IN  SubSeq(all, 1, Len(all) - Len(decoder.body))

\* C19: however the body is split into read chunks, the callbacks invoked and
\* the payload returned (or the error thrown) are those of reading the body
\* in one chunk; between two reads the buffer holds exactly what was read
\* after the last complete delimiter, and the callbacks made so far are those
\* of the segments before it.
C19_ChunkSplitInvariant ==
    /\ decoder.stage = "done" =>
          /\ decoder.callbacks =
                DecodedInOneRead(decoder.frames, decoder.closed).callbacks
          /\ decoder.outcome =
                DecodedInOneRead(decoder.frames, decoder.closed).outcome
    /\ decoder.stage = "reading" =>
          LET segments == Split(ReadSoFar)
              acc == HandleSegments([finalPayload |-> Null, callbacks |-> <<>>],
                                    SubSeq(segments, 1, Len(segments) - 1))
          IN  /\ decoder.buffer = segments[Len(segments)]
              /\ decoder.callbacks = acc.callbacks
              /\ decoder.finalPayload = acc.finalPayload

\* a read ended between the two line feeds of a delimiter, after an earlier
\* frame had been handled: the first line feed waits in the buffer
C19_Witness ==
    /\ decoder.stage = "reading"
    /\ decoder.callbacks # <<>>
    /\ Len(decoder.buffer) > 1
    /\ decoder.buffer[Len(decoder.buffer)] = "\n"
    /\ decoder.body # <<>>
    /\ Head(decoder.body) = "\n"

IsEventKind(kind) == kind \in EventKinds

\* C20: frames without the data: prefix, with no or unparseable JSON, with a
\* JSON value that is not an object, or with an unrecognized type change
\* nothing: when the stream has ended, the callbacks and the outcome are
\* those of the same stream with all such frames taken out.
C20_IgnoredFramesSkipped ==
    decoder.stage = "done" =>
        LET frames == decoder.frames
            kept == SelectSeq(frames, IsEventKind)
            closed == decoder.closed \/ frames[Len(frames)] \in IgnoredKinds
        IN  /\ decoder.callbacks = DecodedInOneRead(kept, closed).callbacks
            /\ decoder.outcome = DecodedInOneRead(kept, closed).outcome

\* a stream with an ignored frame between a progress or session frame and a
\* result frame ended with the callback made and the payload returned
C20_Witness ==
    /\ decoder.stage = "done"
    /\ decoder.outcome.kind = "returned"
    /\ decoder.callbacks # <<>>
    /\ Len(decoder.frames) = 3
    /\ decoder.frames[1] \in {"progress", "session"}
    /\ decoder.frames[2] \in IgnoredKinds
    /\ decoder.frames[3] \in ResultKinds

-----------------------------------------------------------------------------
(* Moves to the front of sessionOrder.                                     *)

\* a occurs before b in s
Before(s, a, b) == \E i, j \in DOMAIN s : i < j /\ s[i] = a /\ s[j] = b

\* next is prev with id moved (or put) to the front and the ids of dropped
\* taken out: id is first and occurs once, no id occurs twice, no other id
\* is gained or lost, and the other ids are in the order they had.
MovedToFront(prev, next, id, dropped) ==
    /\ next # <<>>
    /\ next[1] = id
    /\ Count(next, LAMBDA x : x = id) = 1
    /\ Cardinality(Range(next)) = Len(next)
    /\ Range(next) = (Range(prev) \ dropped) \cup {id}
    /\ \A a, b \in Range(next) \ {id} : Before(next, a, b) <=> Before(prev, a, b)

\* C30: a commit puts the result's session id first in sessionOrder, where
\* it occurs once, takes the provisional id out and keeps the order of all
\* other ids; the optimistic begin step of handleSubmit does the same with
\* its target session.
C30_MovedToFront ==
    [][/\ \A n \in DOMAIN submitCalls :
             LET call == submitCalls[n] IN
             (SubmitResolve(n) /\ call.ok)
                => MovedToFront(sessionOrder, sessionOrder', call.response.session_id,
                                {call.response.session_id, call.provisionalSessionId})
       /\ ComposerSubmit
             => LET target == IF selectedSessionId # Null THEN selectedSessionId
                              ELSE TempSessionId(Len(submitCalls) + 1)
                IN  MovedToFront(sessionOrder, sessionOrder', target, {target})]_vars

\* a commit has put its session in front of another one, and a later begin
\* step has put that other session in front again
C30_Witness ==
    /\ Len(sessionOrder) >= 2
    /\ \E n \in DOMAIN submitCalls :
          /\ Committed(n)
          /\ sessionOrder[2] = submitCalls[n].response.session_id
    /\ \E n \in DOMAIN submitCalls :
          /\ submitCalls[n].stage = "sent"
          /\ sessionOrder[1] = submitCalls[n].provisionalSessionId

-----------------------------------------------------------------------------
(* deriveSessionTitle on its own.  A content is the sequence of its        *)
(* characters; the i-th character of a generated content is the last       *)
(* digit of i, so that a prefix is told apart from any other part.  The    *)
(* fixed texts of the function are sequences of their pieces.              *)

\* trimmed.slice(0, 48) and trimmed.length > 48
TitleLimit == 48

\* Longest generated content, and most uploads.
MaxContent == 50

MaxUploads == 2

\* latestContent: string | undefined
Undefined == <<"undefined">>

\* the one character U+2026 (horizontal ellipsis)
Ellipsis == "U+2026"

Min(a, b) == IF a < b THEN a ELSE b

deriveSessionTitleUntrimmed(latestContent, uploads) ==
    IF latestContent # Undefined /\ latestContent # <<>>
    THEN SubSeq(latestContent, 1, Min(TitleLimit, Len(latestContent)))
            \o (IF Len(latestContent) > TitleLimit THEN <<Ellipsis>> ELSE <<>>)
    ELSE IF Len(uploads) > 0
         THEN <<"Uploaded ", ToString(Len(uploads)), " file">>
                 \o (IF Len(uploads) > 1 THEN <<"s">> ELSE <<>>)
         ELSE <<"New conversation">>

deriveSessionTitle(latestContent, uploads) ==
    LET trimmed == Trim(latestContent) IN
    IF latestContent # Undefined /\ latestContent # <<>> /\ Len(trimmed) > 0
    THEN SubSeq(trimmed, 1, Min(TitleLimit, Len(trimmed)))
            \o (IF Len(trimmed) > TitleLimit THEN <<Ellipsis>> ELSE <<>>)
    ELSE IF Len(uploads) > 0
         THEN <<"Uploaded ", ToString(Len(uploads)), " file">>
                 \o (IF Len(uploads) > 1 THEN <<"s">> ELSE <<>>)
         ELSE <<"New conversation">>

Digits(n) == [i \in 1..n |-> ToString(i % 10)]

\* Contents of every length up to MaxContent, bare or wrapped in white
\* space, white space alone, and no content at all.
TitleContents ==
    {Undefined, <<" ">>, <<"\n", " ", "\t">>}
        \cup {Digits(n) : n \in 0..MaxContent}
        \cup {<<" ">> \o Digits(n) \o <<"\n", " ">> : n \in 1..MaxContent}

TitleUploads == {[i \in 1..k |-> UploadDTO("f" \o ToString(i), Null)] : k \in 0..MaxUploads}

InitTitle ==
    /\ Mounted
    /\ quota = [submits |-> 0, calls |-> 0]
    /\ hydration = NoHydration
    /\ decoder = NoDecoding
    /\ ingestion = NoIngestion
    /\ titling \in [stage : {"called"}, latestContent : TitleContents,
                    uploads : TitleUploads, title : {<<>>}]

ApplyTitle ==
    /\ titling.stage = "called"
    /\ titling' = [titling EXCEPT
                      !.stage = "returned",
                      !.title = deriveSessionTitle(titling.latestContent,
                                                   titling.uploads)]
    /\ UNCHANGED <<clientVars, loadCall, hydrateCalls, deleteCalls, submitCalls,
                   serverVars, quota, hydration, decoder, ingestion, clock>>

NextTitle == ApplyTitle

SpecTitle == InitTitle /\ [][NextTitle]_vars

\* the characters left of a content once the white space at both ends is
\* taken off, counted from the two ends of the content itself
Core(content) ==
    LET inner == {i \in DOMAIN content : content[i] \notin Whitespace}
    IN  IF content = Undefined \/ inner = {} THEN <<>>
        ELSE LET first == CHOOSE i \in inner : \A j \in inner : i <= j
                 last == CHOOSE i \in inner : \A j \in inner : j <= i
             IN  [k \in 1..(last - first + 1) |-> content[first + k - 1]]

\* C27: deriveSessionTitle returns the trimmed content when it is not empty
\* and at most 48 characters long, its first 48 characters and then the
\* ellipsis when it is longer, "Uploaded 1 file" for no content and one
\* upload, "Uploaded n files" for no content and n > 1 uploads, and
\* "New conversation" for no content and no upload.
C27_DerivedTitle ==
    titling.stage = "returned" =>
        LET core == Core(titling.latestContent)
            n == Len(titling.uploads)
            title == titling.title
        IN  /\ (core # <<>> /\ Len(core) <= 48) => title = core
            /\ (Len(core) > 48) =>
                  /\ Len(title) = 49
                  /\ \A i \in 1..48 : title[i] = core[i]
                  /\ title[49] = "U+2026"
            /\ (core = <<>> /\ n = 1) => title = <<"Uploaded ", "1", " file">>
            /\ (core = <<>> /\ n > 1) =>
                  title = <<"Uploaded ", ToString(n), " file", "s">>
            /\ (core = <<>> /\ n = 0) => title = <<"New conversation">>

\* a content of more than 48 characters between white space was cut
C27_Witness ==
    /\ titling.stage = "returned"
    /\ Len(titling.latestContent) > 50
    /\ titling.latestContent[1] = " "
    /\ titling.title[49] = "U+2026"
    /\ titling.title[1] = "1"

-----------------------------------------------------------------------------
(* ingestResponse on the full ChatSession record: title, messages with     *)
(* their content and uploads, session uploads, timestamps.  One catalog,   *)
(* one provisional id and one ChatTurnResponse are taken from small sets   *)
(* and the setSessions updater of ingestResponse is applied to them.       *)

\* !msg.pending, for messages that may lack the field
IsCommittedFull(msg) == ~("pending" \in DOMAIN msg /\ msg.pending)

\* messageBundle of ingestResponse with every field of its messages
MessageBundleFull(response) ==
    LET userUploads == SelectSeq(response.uploads,
                                 LAMBDA u : u.message_id = response.user_message.id)
    IN  <<toChatMessageFull(response.user_message, userUploads)>>
            \o [i \in DOMAIN response.tool_messages |->
                   toChatMessageFull(response.tool_messages[i], <<>>)]
            \o <<toChatMessageFull(response.assistant_message, <<>>)>>

\* The entry with the title taken from the catalog before the payload.
IngestedSessionTitleKept(prev, response, originalSessionId, nowIso) ==
    LET sessionId == response.session_id
        nextSessions == IF originalSessionId # Null /\ originalSessionId # sessionId
                        THEN Without(prev, originalSessionId)
                        ELSE prev
        hasOriginal == originalSessionId # Null /\ originalSessionId \in DOMAIN prev
        hasExisting == sessionId \in DOMAIN nextSessions \/ hasOriginal
        existing == IF sessionId \in DOMAIN nextSessions
                    THEN nextSessions[sessionId]
                    ELSE prev[originalSessionId]
        fallbackTitle ==
            deriveSessionTitle(Coalesce(response.user_message.content, Undefined),
                               response.uploads)
    IN  [id |-> sessionId,
         title |-> IF hasExisting THEN existing.title
                   ELSE Coalesce(response.session_title, fallbackTitle),
         messages |-> (IF hasExisting
                       THEN SelectSeq(existing.messages, IsCommittedFull)
                       ELSE <<>>) \o MessageBundleFull(response),
         uploads |-> response.uploads,
         chronosResponse |-> IF hasExisting
                             THEN Coalesce(response.chronos_response,
                                           existing.chronosResponse)
                             ELSE response.chronos_response,
         forecastJobId |-> IF hasExisting
                           THEN Coalesce(response.forecast_job_id,
                                         existing.forecastJobId)
                           ELSE response.forecast_job_id,
         lastUpdated |-> nowIso,
         createdAt |-> IF hasExisting THEN existing.createdAt ELSE nowIso,
         isHydrated |-> TRUE]

\* nextSessions[sessionId] as the setSessions updater of ingestResponse
\* builds it
IngestedSession(prev, response, originalSessionId, nowIso) ==
    LET sessionId == response.session_id
        nextSessions == IF originalSessionId # Null /\ originalSessionId # sessionId
                        THEN Without(prev, originalSessionId)
                        ELSE prev
        hasOriginal == originalSessionId # Null /\ originalSessionId \in DOMAIN prev
        hasExisting == sessionId \in DOMAIN nextSessions \/ hasOriginal
        existing == IF sessionId \in DOMAIN nextSessions
                    THEN nextSessions[sessionId]
                    ELSE prev[originalSessionId]
        fallbackTitle ==
            deriveSessionTitle(Coalesce(response.user_message.content, Undefined),
                               response.uploads)
    IN  [id |-> sessionId,
         title |-> IF response.session_title # Null THEN response.session_title
                   ELSE IF hasExisting THEN existing.title
                   ELSE fallbackTitle,
         messages |-> (IF hasExisting
                       THEN SelectSeq(existing.messages, IsCommittedFull)
                       ELSE <<>>) \o MessageBundleFull(response),
         uploads |-> response.uploads,
         chronosResponse |-> IF hasExisting
                             THEN Coalesce(response.chronos_response,
                                           existing.chronosResponse)
                             ELSE response.chronos_response,
         forecastJobId |-> IF hasExisting
                           THEN Coalesce(response.forecast_job_id,
                                         existing.forecastJobId)
                           ELSE response.forecast_job_id,
         lastUpdated |-> nowIso,
         createdAt |-> IF hasExisting THEN existing.createdAt ELSE nowIso,
         isHydrated |-> TRUE]

\* the setSessions updater of ingestResponse
IngestSessionsFull(prev, response, originalSessionId, nowIso) ==
    LET sessionId == response.session_id
        nextSessions == IF originalSessionId # Null /\ originalSessionId # sessionId
                        THEN Without(prev, originalSessionId)
                        ELSE prev
    IN  With(nextSessions, sessionId,
             IngestedSession(prev, response, originalSessionId, nowIso))

\* A session of the catalog before the commit.
FullSession(id, title, messages) ==
    [id |-> id, title |-> title, messages |-> messages, uploads |-> <<>>,
     chronosResponse |-> Null, forecastJobId |-> Null,
     lastUpdated |-> "t-old", createdAt |-> "t-created", isHydrated |-> FALSE]

OptimisticMessageFull ==
    [id |-> "optimistic-1", role |-> "user", content |-> <<"h", "i">>,
     createdAt |-> "t-begin", pending |-> TRUE, uploads |-> <<>>]

OldMessage ==
    [id |-> "m0", role |-> "user", content |-> <<"o", "l", "d">>,
     createdAt |-> "t-m0", uploads |-> <<>>]

\* The catalogs a commit can meet, each with the provisional id of the
\* submission: the provisional session alone, the target session holding a
\* committed and the pending message, both of them, and a catalog that has
\* lost the target.
IngestCatalogs ==
    {[prev |-> [id \in {"temp-1"} |->
                   FullSession("temp-1", <<"h", "i">>, <<OptimisticMessageFull>>)],
      originalSessionId |-> "temp-1"],
     [prev |-> [id \in {"s1"} |->
                   FullSession("s1", "Untitled conversation",
                               <<OldMessage, OptimisticMessageFull>>)],
      originalSessionId |-> "s1"],
     [prev |-> [id \in {"s1", "temp-1"} |->
                   IF id = "s1"
                   THEN FullSession("s1", "Untitled conversation", <<OldMessage>>)
                   ELSE FullSession("temp-1", <<"h", "i">>, <<OptimisticMessageFull>>)],
      originalSessionId |-> "temp-1"],
     [prev |-> [id \in {"s3"} |->
                   FullSession("s3", "Other", <<>>)],
      originalSessionId |-> "temp-1"]}

UserMessageDTO(content) == DetailMessageDTO("u1", "user", content)

ToolMessageDTO == DetailMessageDTO("t1", "tool", <<"r", "u", "n">>)

AssistantMessageDTO == DetailMessageDTO("a1", "assistant", <<"o", "k">>)

\* The upload lists of a payload: none; one of the user message; one of the
\* user and one of the assistant message; one of the tool message, one of
\* no message and one of a message that is not in the payload.
TurnUploads ==
    {<<>>,
     <<UploadDTO("f1", "u1")>>,
     <<UploadDTO("f1", "u1"), UploadDTO("f2", "a1")>>,
     <<UploadDTO("f3", "t1"), UploadDTO("f4", Null), UploadDTO("f5", "m9")>>}

\* ChatTurnResponse
FullTurnResponses ==
    [session_id : {"s1", "s2"},
     session_title : {Null, "", "Sales forecast"},
     user_message : {UserMessageDTO(Null), UserMessageDTO(<<"h", "i">>)},
     tool_messages : {<<>>, <<ToolMessageDTO>>},
     assistant_message : {AssistantMessageDTO},
     uploads : TurnUploads,
     chronos_response : {Null, "forecast"},
     forecast_job_id : {Null}]

InitIngest ==
    /\ Mounted
    /\ quota = [submits |-> 0, calls |-> 0]
    /\ hydration = NoHydration
    /\ decoder = NoDecoding
    /\ titling = NoTitling
    /\ \E catalog \in IngestCatalogs, response \in FullTurnResponses :
          ingestion = [stage |-> "called", prev |-> catalog.prev,
                       originalSessionId |-> catalog.originalSessionId,
                       response |-> response, next |-> catalog.prev]

ApplyIngest ==
    /\ ingestion.stage = "called"
    /\ ingestion' = [ingestion EXCEPT
                        !.stage = "applied",
                        !.next = IngestSessionsFull(ingestion.prev, ingestion.response,
                                                    ingestion.originalSessionId,
                                                    "t-now")]
    /\ UNCHANGED <<clientVars, loadCall, hydrateCalls, deleteCalls, submitCalls,
                   serverVars, quota, hydration, decoder, titling, clock>>

NextIngest == ApplyIngest

SpecIngest == InitIngest /\ [][NextIngest]_vars

\* C25: the title of the committed session is the payload's session_title
\* when the payload has one; otherwise the title the catalog held under the
\* result's id, or else under the provisional id; otherwise the title
\* deriveSessionTitle gives for the user message's content and the uploads.
C25_CommitTitle ==
    ingestion.stage = "applied" =>
        LET prev == ingestion.prev
            response == ingestion.response
            sessionId == response.session_id
            provisional == ingestion.originalSessionId
            title == ingestion.next[sessionId].title
        IN  /\ response.session_title # Null => title = response.session_title
            /\ (response.session_title = Null /\ sessionId \in DOMAIN prev)
                  => title = prev[sessionId].title
            /\ ( /\ response.session_title = Null
                 /\ sessionId \notin DOMAIN prev
                 /\ provisional \in DOMAIN prev )
                  => title = prev[provisional].title
            /\ ( /\ response.session_title = Null
                 /\ sessionId \notin DOMAIN prev
                 /\ provisional \notin DOMAIN prev )
                  => title = deriveSessionTitle(
                                 IF response.user_message.content = Null
                                 THEN Undefined ELSE response.user_message.content,
                                 response.uploads)

\* a payload without title and content was committed into a catalog that had
\* lost the target: the title tells the number of uploads
C25_Witness ==
    /\ ingestion.stage = "applied"
    /\ ingestion.response.session_title = Null
    /\ ingestion.response.user_message.content = Null
    /\ ingestion.originalSessionId \notin DOMAIN ingestion.prev
    /\ ingestion.next[ingestion.response.session_id].title
          = <<"Uploaded ", "3", " file", "s">>

\* C26: after a commit every message of the bundle carries exactly the
\* uploads of the payload whose message_id is its id, an upload whose
\* message_id is the id of no message of the bundle is on no message, and
\* the session's uploads are the payload's.
C26_UploadsAttached ==
    ingestion.stage = "applied" =>
        LET response == ingestion.response
            session == ingestion.next[response.session_id]
            bundle == Len(response.tool_messages) + 2
            first == Len(session.messages) - bundle
        IN  /\ session.uploads = response.uploads
            /\ \A i \in (first + 1)..Len(session.messages) :
                  Range(session.messages[i].uploads) =
                     {u \in Range(response.uploads) :
                         u.message_id = session.messages[i].id}

-----------------------------------------------------------------------------
(* The begin step of handleSubmit, with texts, blank texts and attached    *)
(* files, on provisional sessions and on sessions of the loaded list.      *)

\* The attachments the user can hold: none, one file, two files.
BeginFileChoices == FileChoices \cup {<<CsvFile, ImageFile>>}

AttachFiles == \E files \in BeginFileChoices : handleFilesChange(files)

InitBegin ==
    /\ Mounted
    /\ UnitsIdle
    /\ quota = [submits |-> MaxSubmits, calls |-> 0]

NextBegin ==
    \/ ServerList
    \/ ServerListFails
    \/ LoadResolve
    \/ handleCreateSession
    \/ EditText
    \/ AttachFiles
    \/ ComposerSubmit
    \/ \E n \in DOMAIN submitCalls : ServerSubmit(n)
    \/ \E n \in DOMAIN submitCalls : ServerSubmitFails(n)
    \/ \E n \in DOMAIN submitCalls : SubmitResolve(n)

SpecBegin == InitBegin /\ [][NextBegin]_vars

\* C28: the begin step of a valid submission appends one message to the
\* target session and changes no other: its role is user, it is pending,
\* its content is the trimmed text or, for a blank text, "Uploaded N
\* file(s)"; with no session selected the target is a new session under a
\* temp id; the target is then first in sessionOrder and selected, and the
\* request has only been sent.
C28_BeginAppendsPending ==
    [][ComposerSubmit =>
          LET n == Len(submitCalls) + 1
              target == IF selectedSessionId # Null THEN selectedSessionId
                        ELSE TempSessionId(n)
              before == IF target \in DOMAIN sessions
                        THEN sessions[target].messages ELSE <<>>
              after == sessions'[target].messages
              new == after[Len(after)]
              text == Core(messageInput)
          IN  /\ DOMAIN sessions' = DOMAIN sessions \cup {target}
              /\ \A id \in DOMAIN sessions \ {target} : sessions'[id] = sessions[id]
              /\ Len(after) = Len(before) + 1
              /\ SubSeq(after, 1, Len(before)) = before
              /\ new.role = "user"
              /\ new.pending
              /\ new.content = (IF text # <<>> THEN text
                                ELSE <<"Uploaded ", ToString(Len(pendingFiles)),
                                       " file(s)">>)
              /\ selectedSessionId = Null => target \notin DOMAIN sessions
              /\ sessionOrder'[1] = target
              /\ selectedSessionId' = target
              /\ submitCalls'[n].stage = "sent"
              /\ \A m \in DOMAIN submitCalls : submitCalls'[m] = submitCalls[m]
              /\ serverVars' = serverVars]_vars

\* two files were submitted with a blank text to a session that held
\* committed messages: the pending message tells their number
C28_Witness ==
    \E id \in DOMAIN sessions :
        LET messages == sessions[id].messages IN
        /\ Len(messages) >= 3
        /\ messages[Len(messages)].pending
        /\ messages[Len(messages)].content = <<"Uploaded ", "2", " file(s)">>
        /\ ~messages[1].pending
        /\ sessionOrder[1] = id
        /\ selectedSessionId = id

\* C22: a body that is nothing but the result payload as JSON text, with no
\* data: prefix, is decoded like a stream of one result frame with that
\* payload: when it has ended, submitChatMessage has returned the payload.
C22_PlainJsonBodyIsResult ==
    (decoder.stage = "done" /\ decoder.frames = <<"plainJson">>)
        => decoder.outcome = [kind |-> "returned", value |-> ResultPayload("result")]

-----------------------------------------------------------------------------
(* A submission whose response is read as a stream.  The backend serves    *)
(* the request and answers with progress and result frames; the read loop  *)
(* of submitChatMessage decodes them chunk by chunk; what it returns or    *)
(* throws settles the call that handleSubmit awaits.  The payload text of  *)
(* the result frame stands for the ChatTurnResponse the backend built.     *)
(* One response is read at a time.  The caller of submitChatMessage may    *)
(* hold an AbortSignal (options.signal): when it fires, the pending read   *)
(* rejects.                                                                *)

\* message of the DOMException a read rejects with after an abort
AbortError == "The operation was aborted."

\* A call record with further fields.
Extended(call, extra) ==
    [f \in DOMAIN call \cup DOMAIN extra |->
        IF f \in DOMAIN extra THEN extra[f] ELSE call[f]]

ProgressFrames(k) == [i \in 1..k |-> "progress"]

\* The streams of the backend: up to MaxFrames frames, progress frames and
\* then the result frame, or progress frames alone when the backend breaks
\* off; a delimiter follows every frame.
StreamFrameLists ==
    {ProgressFrames(k) \o <<"result">> : k \in 0..(MaxFrames - 1)}
        \cup {ProgressFrames(k) : k \in 1..(MaxFrames - 1)}

InitStream ==
    /\ Mounted
    /\ UnitsIdle
    /\ quota = [submits |-> MaxSubmits, calls |-> 0]

\* POST /chat/message is served as in ServerSubmit, and the response body
\* starts to arrive.
ServerStream(n) ==
    /\ submitCalls[n].stage = "sent"
    /\ decoder.stage # "reading"
    /\ \A m \in DOMAIN submitCalls : submitCalls[m].stage # "streaming"
    /\ LET call == submitCalls[n]
              nTools == ToolCount(n)
              known == call.sessionId \in DOMAIN server
              sid == IF known THEN call.sessionId ELSE ServerSessionId(serverCreated + 1)
              history == IF known THEN server[sid] ELSE <<>>
          IN  /\ server' = With(server, sid, history \o TurnDTOs(n, nTools))
              /\ updated_at' = With(updated_at, sid, clock)
              /\ serverOrder' = <<sid>> \o SelectSeq(serverOrder, LAMBDA id : id # sid)
              /\ serverCreated' = IF known THEN serverCreated ELSE serverCreated + 1
              /\ \E frames \in StreamFrameLists, closed \in {TRUE} :
                    /\ decoder' = StartDecoding(frames, closed)
                    /\ submitCalls' = [submitCalls EXCEPT ![n] =
                          Extended(call, [stage |-> "streaming",
                                          served |-> TurnResponse(sid, n, nTools),
                                          frames |-> frames,
                                          closed |-> closed,
                                          cause |-> Null])]
    /\ UNCHANGED <<clientVars, loadCall, hydrateCalls, deleteCalls, quota,
                   hydration, titling, ingestion, clock>>

\* The signal fires while a read is pending: reader.read() rejects, the
\* loop is left by the exception, buffer and finalPayload are dropped.
StreamAborted ==
    /\ decoder.stage = "reading"
    /\ decoder' = [decoder EXCEPT !.stage = "done",
                                  !.outcome = [kind |-> "threw", value |-> AbortError]]
    /\ DecoderFrame

\* The settling that hands on a payload decoded before the read rejected.
StreamSettledKeepsPayload(n) ==
    /\ submitCalls[n].stage = "streaming"
    /\ decoder.stage = "done"
    /\ submitCalls' = [submitCalls EXCEPT ![n] =
          IF decoder.finalPayload # Null
          THEN [@ EXCEPT !.stage = "answered", !.ok = TRUE,
                         !.response = submitCalls[n].served]
          ELSE [@ EXCEPT !.stage = "answered", !.cause = decoder.outcome.value]]
    /\ UNCHANGED <<unitVars, clientVars, loadCall, hydrateCalls, deleteCalls,
                   serverVars, quota>>

\* submitChatMessage returns or throws: the await of handleSubmit settles.
StreamSettled(n) ==
    /\ submitCalls[n].stage = "streaming"
    /\ decoder.stage = "done"
    /\ submitCalls' = [submitCalls EXCEPT ![n] =
          IF decoder.outcome.kind = "returned"
          THEN [@ EXCEPT !.stage = "answered", !.ok = TRUE,
                         !.response = IF decoder.outcome.value = "turnA"
                                      THEN submitCalls[n].served
                                      ELSE NoResponse]
          ELSE [@ EXCEPT !.stage = "answered", !.cause = decoder.outcome.value]]
    /\ UNCHANGED <<unitVars, clientVars, loadCall, hydrateCalls, deleteCalls,
                   serverVars, quota>>

NextStream ==
    \/ \E value \in Texts : onMessageChange(value)
    \/ ComposerSubmit
    \/ \E n \in DOMAIN submitCalls : ServerStream(n)
    \/ ReadChunk
    \/ ReadDone
    \/ StreamAborted
    \/ \E n \in DOMAIN submitCalls : StreamSettled(n)
    \/ \E n \in DOMAIN submitCalls : SubmitResolve(n)

SpecStream == InitStream /\ [][NextStream]_vars

\* progress frames, then a result frame that a delimiter completes
ProgressThenResult(frames, closed) ==
    /\ closed
    /\ frames[Len(frames)] = "result"
    /\ \A i \in 1..(Len(frames) - 1) : frames[i] = "progress"

\* C21: a stream of any number of progress frames and then the result frame
\* gives what the result frame alone gives: reading it changes nothing of
\* the catalog, the ordering and the selection, submitChatMessage returns
\* the payload the backend built, and the commit leaves the sessions, the
\* ordering and the selection that ingesting that payload gives.
C21_ProgressFramesChangeNothing ==
    [][/\ (ReadChunk \/ ReadDone)
             => UNCHANGED <<sessions, sessionOrder, selectedSessionId>>
       /\ \A n \in DOMAIN submitCalls :
             LET call == submitCalls[n] IN
             /\ (StreamSettled(n) /\ ProgressThenResult(call.frames, call.closed)
                                  /\ decoder.outcome.value # AbortError)
                   => /\ submitCalls'[n].ok
                      /\ submitCalls'[n].response = call.served
             /\ (SubmitResolve(n) /\ ProgressThenResult(call.frames, call.closed)
                                  /\ call.cause = Null)
                   => /\ sessions' = IngestSessions(sessions, call.served,
                                                    call.provisionalSessionId)
                      /\ sessionOrder' = IngestOrder(sessionOrder, call.served,
                                                     call.provisionalSessionId)
                      /\ selectedSessionId' = call.served.session_id]_vars

\* a submission answered with two progress frames and the result was
\* committed
C21_Witness ==
    \E n \in DOMAIN submitCalls :
        /\ Committed(n)
        /\ submitCalls[n].frames = <<"progress", "progress", "result">>
        /\ submitCalls[n].response.session_id \in DOMAIN sessions
        /\ PendingCount(submitCalls[n].response.session_id) = 0

\* the committed messages a catalog holds under an id
CommittedMessages(catalog, id) ==
    IF id \in DOMAIN catalog THEN SelectSeq(catalog[id].messages, IsCommitted) ELSE <<>>

\* C23: a submission aborted in mid-stream fails and changes no committed
\* message: the aborted submitChatMessage throws and hands on no payload,
\* also when frames had been decoded; its begin step, the reads of its
\* stream and the step of handleSubmit that handles the failure leave the
\* committed messages of every session, the target included, as they were.
C23_AbortLeavesCommittedMessages ==
    [][/\ \A n \in DOMAIN submitCalls :
             /\ (StreamSettled(n) /\ decoder.outcome.value = AbortError)
                   => /\ ~submitCalls'[n].ok
                      /\ submitCalls'[n].response = NoResponse
             /\ (SubmitResolve(n) /\ submitCalls[n].cause = AbortError)
                   => /\ DOMAIN sessions' = DOMAIN sessions
                      /\ \A id \in DOMAIN sessions :
                            CommittedMessages(sessions', id)
                               = CommittedMessages(sessions, id)
       /\ (ComposerSubmit \/ ReadChunk \/ StreamAborted)
             => \A id \in DOMAIN sessions' :
                   CommittedMessages(sessions', id) = CommittedMessages(sessions, id)]_vars

\* a submission to a session that held committed messages was aborted after
\* a progress frame had been decoded and before the result frame was read,
\* and handleSubmit has handled the failure
C23_Witness ==
    /\ decoder.stage = "done"
    /\ decoder.outcome.value = AbortError
    /\ decoder.callbacks # <<>>
    /\ decoder.finalPayload = Null
    /\ decoder.body # <<>>
    /\ LET n == Len(submitCalls) IN
          /\ n = 2
          /\ Committed(1)
          /\ Failed(n)
          /\ submitCalls[n].cause = AbortError
          /\ CommittedMessages(sessions, submitCalls[n].provisionalSessionId) # <<>>

-----------------------------------------------------------------------------
(* The ordering of the sidebar against the lastUpdated of the sessions.    *)
(* The browser and the backend read one clock; time passes between any     *)
(* two steps, or does not.                                                 *)

MaxClock == 1

\* Time passes.
Tick ==
    /\ clock < MaxClock
    /\ clock' = clock + 1
    /\ UNCHANGED <<clientVars, loadCall, hydrateCalls, deleteCalls, submitCalls,
                   serverVars, quota, hydration, decoder, titling, ingestion>>

InitTimed ==
    /\ Mounted
    /\ UnitsIdle
    /\ quota = [submits |-> MaxSubmits, calls |-> FewCalls]

NextTimed ==
    \/ Next
    \/ Tick

SpecTimed == InitTimed /\ [][NextTimed]_vars

\* C29: in every reachable state the sessions listed by sessionOrder are
\* ordered most-recently-updated first: of two adjacent ids of sessionOrder
\* the lastUpdated of the earlier one is not older than that of the later one.
C29_OrderedByLastUpdated ==
    \A i \in 1..(Len(sessionOrder) - 1) :
        (sessionOrder[i] \in DOMAIN lastUpdated
            /\ sessionOrder[i + 1] \in DOMAIN lastUpdated)
        => lastUpdated[sessionOrder[i]] >= lastUpdated[sessionOrder[i + 1]]


-----------------------------------------------------------------------------
(* The selection against the catalog.                                      *)

\* C33: in every reachable state selectedSessionId is null or the id of a
\* session present in the catalog.
C33_SelectionInCatalog ==
    selectedSessionId = Null \/ selectedSessionId \in DOMAIN sessions


-----------------------------------------------------------------------------
(* The session_id of the submission requests.                              *)

\* The ids the backend has assigned so far.
ServerAssigned == {ServerSessionId(k) : k \in 1..serverCreated}

\* C34: every submission request carries either no session_id or an id that
\* the server assigned, never a locally generated provisional id.
C34_NoProvisionalIdSent ==
    \A n \in DOMAIN submitCalls :
        submitCalls[n].sessionId = Null \/ submitCalls[n].sessionId \in ServerAssigned


-----------------------------------------------------------------------------
(* isSubmitting against the submissions in flight.                         *)

\* C37: isSubmitting is true in every state in which at least one submission
\* is in flight.
C37_SubmittingWhileInFlight ==
    (\E n \in DOMAIN submitCalls : InFlight(n)) => isSubmitting


-----------------------------------------------------------------------------
(* A delete request that fails.                                            *)

\* C39: a delete request that fails changes nothing of the catalog, the
\* ordering, the selection and the hydration markers, neither when it is
\* started nor when its failure is handled; the failure records an error and
\* clears deletingSessions[id].
C39_FailedDeleteChangesNothing ==
    [][/\ \A sessionId \in Range(sessionOrder) :
            handleDeleteSession(sessionId)
            => UNCHANGED <<sessions, sessionOrder, selectedSessionId,
                           hydratingSessions>>
       /\ \A call \in deleteCalls :
            (DeleteResolve(call) /\ ~call.ok)
            => /\ UNCHANGED <<sessions, sessionOrder, selectedSessionId,
                              hydratingSessions>>
               /\ error' # Null
               /\ call.sessionId \notin deletingSessions']_vars

\* C39 witness: the delete request for a session of the catalog whose
\* hydration is in flight has failed, and its failure is about to be handled.
C39_Witness ==
    \E call \in deleteCalls :
        /\ call.stage = "answered" /\ ~call.ok
        /\ call.sessionId \in deletingSessions
        /\ call.sessionId \in DOMAIN sessions
        /\ call.sessionId \in hydratingSessions
        /\ selectedSessionId = call.sessionId


-----------------------------------------------------------------------------
(* The end of the stream with a frame left in the buffer.                  *)

\* C38: a result frame that is the last frame of the stream is decoded even
\* when no delimiter follows it: when the stream has ended, the call has
\* returned the payload of that frame.
C38_LastFrameWithoutDelimiterDecoded ==
    (/\ decoder.stage = "done"
     /\ ~decoder.closed
     /\ decoder.frames[Len(decoder.frames)] \in ResultKinds)
    => decoder.outcome = [kind |-> "returned",
                          value |-> ResultPayload(decoder.frames[Len(decoder.frames)])]


-----------------------------------------------------------------------------
(* The hydration flag against the history the backend stores.              *)

\* The ids of the messages a list of DTOs or of chat messages holds.
IdsOf(messages) == {messages[i].id : i \in DOMAIN messages}

\* C36: a session is marked isHydrated only when its message list holds the
\* session's full server-side history (once every submission has been
\* answered and its answer applied: a turn the backend has stored while its
\* response is still on the way is not counted as missing).
C36_HydratedHoldsHistory ==
    (\A n \in DOMAIN submitCalls : ~InFlight(n))
    => \A id \in DOMAIN sessions \cap DOMAIN server :
          sessions[id].isHydrated
          => IdsOf(server[id]) \subseteq IdsOf(sessions[id].messages)


-----------------------------------------------------------------------------
(* The committed messages of a session, step by step.                      *)

\* The session holds every message of the bundle committed by submission n.
HoldsBundle(catalog, n) ==
    LET response == submitCalls[n].response
    IN  /\ response.session_id \in DOMAIN catalog
        /\ IdsOf(MessageBundle(response))
              \subseteq IdsOf(catalog[response.session_id].messages)

\* C35: once the message bundle of a submission has been committed into a
\* session, no step removes those messages from the session's list as long
\* as the session stays in the catalog.
C35_CommittedBundleStays ==
    [][\A n \in DOMAIN submitCalls :
          (/\ Committed(n)
           /\ HoldsBundle(sessions, n)
           /\ submitCalls[n].response.session_id \in DOMAIN sessions')
          => HoldsBundle(sessions', n)]_vars


-----------------------------------------------------------------------------
(* Operations on different sessions.                                       *)

\* Every session of the catalog other than those named keeps its record and
\* its lastUpdated.
OthersUntouched(ids) ==
    \A id \in DOMAIN sessions \ ids :
        /\ id \in DOMAIN sessions'
        /\ sessions'[id] = sessions[id]
        /\ lastUpdated'[id] = lastUpdated[id]

\* C32: applying a hydration result for a session leaves every other session
\* record, sessionOrder and the selection unchanged and adds no session; the
\* begin and the commit step of a submission leave the record of every session
\* other than the one submitted to (under its provisional id and under the id
\* of the response) unchanged.
C32_OtherSessionsUntouched ==
    [][/\ \A call \in BagToSet(hydrateCalls) :
            (HydrateResolve(call) /\ call.ok)
            => /\ OthersUntouched({call.sessionId})
               /\ DOMAIN sessions' = DOMAIN sessions
               /\ UNCHANGED <<sessionOrder, selectedSessionId>>
       /\ (ComposerSubmit /\ submitCalls' # submitCalls)
            => LET n == Len(submitCalls) + 1
               IN  OthersUntouched({submitCalls'[n].provisionalSessionId})
       /\ \A n \in DOMAIN submitCalls :
            (SubmitResolve(n) /\ submitCalls[n].ok)
            => /\ OthersUntouched({submitCalls[n].provisionalSessionId,
                                   submitCalls[n].response.session_id})
               /\ DOMAIN sessions' \subseteq
                     DOMAIN sessions \cup {submitCalls[n].response.session_id}]_vars

\* C32 witness: the history of one session has been applied by a hydration
\* while a submission to another session of the catalog is in flight.
C32_Witness ==
    \E a \in DOMAIN sessions : \E n \in DOMAIN submitCalls :
        LET b == submitCalls[n].provisionalSessionId
        IN  /\ b # a
            /\ b \in DOMAIN sessions
            /\ InFlight(n)
            /\ Holds(b, OptimisticId(n))
            /\ sessions[a].isHydrated
            /\ IdsOf(sessions[a].messages) = IdsOf(InitialHistory)
            /\ hydrateCalls = EmptyBag


-----------------------------------------------------------------------------
(* Progress: every operation that was started completes.                   *)

\* Every request is settled by the network, answered or failed, and the
\* event loop runs the continuation of every settled call.
Fairness ==
    /\ WF_vars(ServerList \/ ServerListFails)
    /\ WF_vars(LoadResolve)
    /\ WF_vars(\E call \in BagToSet(hydrateCalls) :
                  ServerDetail(call) \/ ServerDetailFails(call))
    /\ WF_vars(\E call \in BagToSet(hydrateCalls) : HydrateResolve(call))
    /\ WF_vars(\E call \in deleteCalls : ServerDelete(call) \/ ServerDeleteFails(call))
    /\ WF_vars(\E call \in deleteCalls : DeleteResolve(call))
    /\ WF_vars(\E n \in DOMAIN submitCalls : ServerSubmit(n) \/ ServerSubmitFails(n))
    /\ WF_vars(\E n \in DOMAIN submitCalls : SubmitResolve(n))

SpecLive == InitNarrow /\ [][Next]_vars /\ Fairness

\* The ids a session can have within the bounds.
AllIds ==
    {ServerSessionId(k) : k \in 1..(MaxSubmits + 1)}
        \cup {TempSessionId(n) : n \in 1..MaxSubmits}

\* C31: every submit, hydrate and delete operation that has started eventually
\* completes, and its completion, success or failure, clears its busy marker:
\* the step that completes a submission leaves isSubmitting false, the step
\* that completes a hydration or a delete leaves the id unmarked, and no
\* marker stays set for ever.
C31_OperationsComplete ==
    /\ [][/\ \A n \in DOMAIN submitCalls : SubmitResolve(n) => ~isSubmitting'
          /\ \A call \in BagToSet(hydrateCalls) :
                HydrateResolve(call) => call.sessionId \notin hydratingSessions'
          /\ \A call \in deleteCalls :
                DeleteResolve(call) => call.sessionId \notin deletingSessions']_vars
    /\ \A n \in 1..MaxSubmits :
          (Len(submitCalls) >= n)
             ~> (Len(submitCalls) >= n /\ submitCalls[n].stage = "done")
    /\ isSubmitting ~> ~isSubmitting
    /\ \A id \in AllIds :
          /\ (id \in hydratingSessions)
                ~> (id \notin hydratingSessions /\ FetchesInFlight(id) = 0)
          /\ (id \in deletingSessions)
                ~> (id \notin deletingSessions
                       /\ \A call \in deleteCalls : call.sessionId # id)

\* C31 witness: a submission has failed and completed, and a later submission
\* was started and has completed too; nothing is busy.
C31_Witness ==
    /\ Len(submitCalls) = 2
    /\ Failed(1)
    /\ Committed(2)
    /\ ~isSubmitting
    /\ hydratingSessions = {} /\ deletingSessions = {}

=============================================================================
